---- MODULE Spec2Model ----
(***************************************************************************)
(* A model of jindai: the job queue of api.py (TasksQueue, the enqueue /   *)
(* dequeue / fetch handlers, valid_task) and DBQuery of jindai/dbquery.py: *)
(* the compilation of a query, the constructor with its grouping stages,  *)
(* fetch and count; the flow-control stages of plugins/pipelines/          *)
(* controls.py and the construction of Invoke-task stages; the status     *)
(* listing of the job queue; the tokens of api.py; import_timeline and     *)
(* parse_tweet of plugins/datasources/twitterdatasource.py; and            *)
(* try_download of models.py.                                              *)
(***************************************************************************)
EXTENDS Integers, Sequences, FiniteSets, TLC

(* ------------------------------------------------------------------ *)
(* Bounds                                                              *)
(* ------------------------------------------------------------------ *)
\* number of enqueue requests over a run
MaxEnq == 2
\* last value of the clock (time.time() in whole seconds)
MaxClock == 1
\* number of request threads handling enqueue at once
MaxReq == 2
\* records read by a Task's data source
MaxRecords == 5
\* largest offset and limit of a fetch_task request
MaxOffset == 3
MaxLimit == 3
\* longest stored list result fetched
MaxList == 3
\* waiting entries when a cancel request arrives
MaxWaiting == 2
\* longest pipeline of a job given to valid_task
MaxStages == 2
\* collections of a DBQuery, records of a collection, largest skip, and
\* fetch()/count() calls on one DBQuery
MaxColls == 2
MaxSize == 3
MaxSkip == 3
MaxCalls == 2
\* last value of the state $sample draws its records from
MaxSeed == 1
\* records of a collection where only the calls of count() are followed
MaxCounted == 1
\* longest query string and longest list of stages given to DBQuery
MaxText == 3
MaxQuery == 2

(* ------------------------------------------------------------------ *)
(* Jobs, run ids, task results                                         *)
(* ------------------------------------------------------------------ *)
\* the stored jobs (TaskDBO documents) a request may name
Jobs == 1 .. 2
Clock == 0 .. MaxClock
Workers == 1 .. MaxEnq
Reqs == 1 .. MaxReq

\* f'{t.id}/{t.name}_{int(time.time())}': the job and the second of the enqueue
RunId(j, now) == <<j, now>>
\* '': the running_task of an idle queue; no run id equals it
NoTask == <<0, 0>>
AllKeys == Jobs \X Clock

\* A Task: n records, the record that raises when advanced (0: none) and
\* the resume_next flag; ctor is FALSE when constructing the Task raises.
TaskOf(n, failAt, resume, ctor) ==
    [n |-> n, failAt |-> failAt, resume_next |-> resume, ctor |-> ctor]

\* what the stored jobs of the queue specification do
JobDB(j) ==
    IF j = 1 THEN TaskOf(2, 0, FALSE, TRUE)
    ELSE TaskOf(2, 1, FALSE, TRUE)

\* output of the pipeline for record i
Out(i) == i

RECURSIVE Outputs(_, _, _)
\* the outputs of records from..n in order, the record skip left out
Outputs(from, n, skip) ==
    IF from > n THEN <<>>
    ELSE IF from = skip THEN Outputs(from + 1, n, skip)
    ELSE <<Out(from)>> \o Outputs(from + 1, n, skip)

\* Task(...) or Task.execute() raises: a specification error at construction,
\* or a record failing when resume_next is off
TaskRaises(t) ==
    \/ ~t.ctor
    \/ t.failAt \in 1 .. t.n /\ ~t.resume_next

\* Task.execute(): the per-record outputs, a failing record dropped under
\* resume_next
TaskExecute(t) ==
    [kind |-> "list", items |-> Outputs(1, t.n, t.failAt)]

\* {'exception': str(ex), 'tracestack': ...}
Failure == [kind |-> "failure", items |-> <<>>]

\* a stored result that is None, and the value of an unset response
NoResult == [kind |-> "none", items |-> <<>>]

\* the worker keeping what the Task had produced when it raised
TryResultPartial(raised, value) == value

\* the try/except of the worker: the Task's result, or the failure record
\* when constructing or executing the Task raised
TryResult(raised, value) ==
    IF raised THEN Failure ELSE value

(* ------------------------------------------------------------------ *)
(* State of the job queue                                              *)
(* ------------------------------------------------------------------ *)
VARIABLES
    q,             \* TasksQueue._q: the waiting entries, oldest first
    running,       \* TasksQueue.running
    running_task,  \* TasksQueue.running_task
    results,       \* TasksQueue.results: run id -> result
    clock,         \* int(time.time())
    wpc,           \* per worker thread: its place in working()
    went,          \* per worker thread: the entry it popped (its local t)
    rpc,           \* per request thread: its place in enqueue_task()
    enq,           \* enqueue requests so far; numbers the entries
    started,       \* the entries whose execution started, in that order
    resp           \* the last response of dequeue_task

qvars == <<q, running, running_task, results, clock, wpc, went, rpc, enq,
           started, resp>>

\* One Task run by the worker, record by record
VARIABLES
    task,          \* the Task: records, failing record, resume_next, ctor
    tpos,          \* the record the Task advances next
    tacc,          \* the outputs collected so far
    tphase,        \* new, run, returned, raised, stored
    tresult        \* what the worker stored for the Task

tvars == <<task, tpos, tacc, tphase, tresult>>

\* The response of the last fetch_task request
VARIABLES fetched

\* One call of valid_task
VARIABLES
    job,           \* the argument j
    validated,     \* the returned job
    vphase         \* new, done, error

vvars == <<job, validated, vphase>>

\* One DBQuery object and the collections it reads
VARIABLES
    store,             \* collection name -> its matching records, as stored
    mongocollections,  \* DBQuery.mongocollections
    query,             \* DBQuery.query: the aggregation stages
    dlimit,            \* DBQuery.limit
    dskip,             \* DBQuery.skip
    dsort,             \* DBQuery.sort
    skips,             \* DBQuery.skips
    dout,              \* the records the last fetch() yielded
    dcount,            \* the value the last count() returned
    dphase,            \* new, fetched, counted, raised
    dcalls,            \* fetch() and count() calls so far
    broken,            \* the collections whose aggregation raises
    seed,              \* the random state $sample reads
    dpipes             \* the aggregations the last fetch() or count() ran

dvars == <<store, mongocollections, query, dlimit, dskip, dsort, skips, dout,
           dcount, dphase, dcalls, broken, seed, dpipes>>

\* The construction of one DBQuery
VARIABLES
    pin,           \* the arguments of the constructor
    compiled,      \* what DBQuery._parse returned
    pquery,        \* DBQuery.query
    praw,          \* DBQuery.raw
    phandler,      \* DBQuery.handler
    pcolls,        \* DBQuery.mongocollections
    pphase,        \* idle, new, built, fetched
    pout           \* where fetch() took its records from

pvars == <<pin, compiled, pquery, praw, phandler, pcolls, pphase, pout>>

\* A grouped query: the grouping part of the constructor and its result
VARIABLES
    gin,           \* the arguments of the constructor: groups and sort
    gstore,        \* the records the query matches, in stored order
    gsort,         \* DBQuery.sort
    gquery,        \* the stages the constructor appended to DBQuery.query
    gout,          \* the documents the appended stages give
    gphase         \* idle, new, built, fetched

gvars == <<gin, gstore, gsort, gquery, gout, gphase>>

\* A pipeline with flow-control stages and the records in flight
VARIABLES
    graph,         \* the stages built: kind, next, sub-pipelines, arguments
    top,           \* Pipeline.stages of the pipeline that is run
    at,            \* record -> the stage it is handed to next (0: terminal)
    cnt,           \* record -> stage -> paragraph[times_key] (None: absent)
    fields,        \* record -> the field a condition may test
    step,          \* the last flow() call: stage, record, what it yielded
    routed,        \* record -> stage -> times routed into the sub-pipeline
                   \* since the stage last sent the record to its next
    texec,         \* stage -> calls of self.task.execute()
    fsum,          \* stage -> what summarize() returned
    fphase         \* idle, run, done

fvars == <<graph, top, at, cnt, fields, step, routed, texec, fsum, fphase>>

\* The construction of a CallTask with params
VARIABLES
    ojob,          \* the stored job TaskDBO.first gives
    oparams,       \* params: the entries (k, v) in order
    ores,          \* the job the Task is made from
    ophase         \* idle, new, built, failed

ovars == <<ojob, oparams, ores, ophase>>

\* The status listing over run ids as they are written
VARIABLES
    sjobs,         \* job id -> the name of the stored job
    squeue,        \* TasksQueue._q: the run ids waiting
    sresults,      \* the keys of TasksQueue.results, in insertion order
    senq,          \* run id -> the name and time it was enqueued with
    sstatus,       \* what status returned
    sphase         \* idle, open, listed

svars == <<sjobs, squeue, sresults, senq, sstatus, sphase>>

\* The stored tokens and the token cache
VARIABLES
    tokdb,         \* the Token collection: the documents stored
    tcache,        \* Token._cache: token string -> the cached Token
    tnow,          \* time.time()
    issued,        \* per token issued, in order: the user it was issued to
    tokresp        \* the response of the last request

kvars == <<tokdb, tcache, tnow, issued, tokresp>>

\* The construction of a Task whose pipeline holds CallTask stages
VARIABLES
    cstore,        \* the TaskDBO collection: job id -> the stages of its pipeline
    cstack,        \* the constructions under way, the outermost first
    cloads,        \* calls of TaskDBO.first so far
    cphase         \* idle, building, built, failed, overflow

cvars == <<cstore, cstack, cloads, cphase>>

\* One call of import_timeline
VARIABLES
    iuser,         \* the user argument: "@" a screen name, "#" a user id, "" none
    time_after,    \* self.time_after
    time_before,   \* self.time_before
    max_id,        \* the paging cursor
    before,        \* the time of the oldest status taken
    min_id,        \* the id of the lower time bound
    pages,         \* the pages requested
    ipage,         \* the last page: the cursor it was requested with, what it held
    iphase         \* idle, new, paging, done, error

ivars == <<iuser, time_after, time_before, max_id, before, min_id, pages, ipage,
           iphase>>

\* One call of parse_tweet
VARIABLES
    mtweet,        \* the status and the settings of the data source
    mret,          \* what parse_tweet returned
    msaved,        \* what para.save() and item.save() stored
    mphase         \* idle, new, parsed

mvars == <<mtweet, mret, msaved, mphase>>

\* One call of try_download
VARIABLES
    wurl,          \* the url: "remote" with a scheme, "local" a path
    wattempts,     \* the argument attempts
    witry,         \* the attempts made
    wbuf,          \* buf: 0 for None, else the attempt whose content it holds
    wcode,         \* the local code: whether it is bound, and its value
    wgot,          \* the attempts that obtained content
    wsleeps,       \* the calls of time.sleep(1)
    wret,          \* the value returned
    wphase         \* idle, loop, break, returned

wvars == <<wurl, wattempts, witry, wbuf, wcode, wgot, wsleeps, wret, wphase>>

yvars == <<kvars, cvars, ivars, mvars, wvars>>

\* the variables of the job queue, of DBQuery and of the flow-control stages
zvars == <<qvars, tvars, fetched, vvars, dvars, pvars, gvars, fvars, ovars, svars>>

xvars == <<gvars, fvars, ovars, svars, yvars>>

\* what the actions on tokens and those of a construction leave alone
nonk == <<zvars, cvars, ivars, mvars, wvars>>
nonc == <<zvars, kvars, ivars, mvars, wvars>>
noni == <<zvars, kvars, cvars, mvars, wvars>>
nonm == <<zvars, kvars, cvars, ivars, wvars>>
nonw == <<zvars, kvars, cvars, ivars, mvars>>

vars == <<qvars, tvars, fetched, vvars, dvars, pvars, xvars>>

\* what the actions of the job queue leave alone
nonq == <<tvars, fetched, vvars, dvars, pvars, xvars>>

DIdle ==
    /\ store = <<>>
    /\ mongocollections = <<>>
    /\ query = <<>>
    /\ dlimit = 0
    /\ dskip = 0
    /\ dsort = "id"
    /\ skips = <<>>
    /\ dout = <<>>
    /\ dcount = 0
    /\ dphase = "idle"
    /\ dcalls = 0
    /\ broken = {}
    /\ seed = 0
    /\ dpipes = <<>>

NoSorting == [fn |-> "none", field |-> <<>>]

GIdle ==
    /\ gin = [groups |-> <<>>, sort |-> <<>>]
    /\ gstore = <<>>
    /\ gsort = <<>>
    /\ gquery = <<>>
    /\ gout = {}
    /\ gphase = "idle"

None == -1

NoStep == [stage |-> 0, rec |-> 0, dest |-> 0, pairs |-> 0, into |-> FALSE,
           branch |-> 0, evals |-> 0, seen |-> None, visit |-> 0,
           passes |-> 0]

FIdle ==
    /\ graph = <<>>
    /\ top = <<>>
    /\ at = <<>>
    /\ cnt = <<>>
    /\ fields = <<>>
    /\ step = NoStep
    /\ routed = <<>>
    /\ texec = <<>>
    /\ fsum = <<>>
    /\ fphase = "idle"

\* a value of a job: a list, a dict, a string or a number
Value(t, items, map, str, n) ==
    [t |-> t, items |-> items, map |-> map, s |-> str, n |-> n]

VL(items) == Value("list", items, <<>>, "", 0)
VD(map) == Value("dict", <<>>, map, "", 0)
VS(str) == Value("str", <<>>, <<>>, str, 0)
VN(n) == Value("int", <<>>, <<>>, "", n)

NoJob == [datasource_config |-> VD(<<>>), pipeline |-> VL(<<>>)]

OIdle ==
    /\ ojob = NoJob
    /\ oparams = <<>>
    /\ ores = NoJob
    /\ ophase = "idle"

NoStatus == [finished |-> <<>>, waiting |-> 0]

SIdle ==
    /\ sjobs = <<>>
    /\ squeue = <<>>
    /\ sresults = <<>>
    /\ senq = <<>>
    /\ sstatus = NoStatus
    /\ sphase = "idle"

NoToken == [set |-> FALSE, user |-> 0, expire |-> 0]
NoTokResp == [op |-> "none", token |-> 0, ok |-> FALSE]

KIdle ==
    /\ tokdb = {}
    /\ tcache = <<>>
    /\ tnow = 0
    /\ issued = <<>>
    /\ tokresp = NoTokResp

CIdle ==
    /\ cstore = <<>>
    /\ cstack = <<>>
    /\ cloads = 0
    /\ cphase = "idle"

NoPage == [cursor |-> 0, older |-> FALSE, only_old |-> FALSE, raised |-> FALSE]

IIdle ==
    /\ iuser = ""
    /\ time_after = 0
    /\ time_before = 0
    /\ max_id = 0
    /\ before = 0
    /\ min_id = 0
    /\ pages = 0
    /\ ipage = NoPage
    /\ iphase = "idle"

NoTweet == [media |-> <<>>, imported |-> FALSE, existent |-> FALSE,
            allow_video |-> FALSE, media_only |-> FALSE, skip_existent |-> FALSE,
            arg |-> "None"]
NoPara == [some |-> FALSE, images |-> <<>>]
NoSaved == [para |-> FALSE, images |-> <<>>, items |-> {}]

MIdle ==
    /\ mtweet = NoTweet
    /\ mret = NoPara
    /\ msaved = NoSaved
    /\ mphase = "idle"

Unbound == [bound |-> FALSE, value |-> 0]

WIdle ==
    /\ wurl = ""
    /\ wattempts = 0
    /\ witry = 0
    /\ wbuf = 0
    /\ wcode = Unbound
    /\ wgot = 0
    /\ wsleeps = 0
    /\ wret = 0
    /\ wphase = "idle"

YIdle == KIdle /\ CIdle /\ IIdle /\ MIdle /\ WIdle

XIdle == GIdle /\ FIdle /\ OIdle /\ SIdle /\ YIdle

\* one stage of a query being compiled: its operator ("str" for a stage
\* that is a string, "plain" for a dict without operator) and its content,
\* a list of strings; a string is the sequence of its characters
St(op, arg) == [op |-> op, arg |-> arg]

NoHandler == [set |-> FALSE, fn |-> <<>>, args |-> <<>>]
NoOutput == [src |-> "none", fn |-> <<>>, args |-> <<>>, agg |-> <<>>]

PIdle ==
    /\ pin = [text |-> <<>>, stages |-> <<>>, lims |-> <<>>, pm |-> FALSE,
              via |-> "direct", colls |-> <<>>, raw |-> <<"false">>]
    /\ compiled = <<>>
    /\ pquery = <<>>
    /\ praw = <<"false">>
    /\ phandler = NoHandler
    /\ pcolls = <<>>
    /\ pphase = "idle"
    /\ pout = NoOutput

\* {}: a configuration without keys
EmptyMap == [k \in {} |-> 0]

VIdle ==
    /\ job = EmptyMap
    /\ validated = EmptyMap
    /\ vphase = "idle"

NoFetch == [op |-> "none", key |-> NoTask, offset |-> 0, limit |-> 0,
            status |-> 0, kind |-> "none", results |-> <<>>, total |-> 0,
            body |-> NoResult]

TIdle ==
    /\ task = TaskOf(0, 0, FALSE, TRUE)
    /\ tpos = 1
    /\ tacc = <<>>
    /\ tphase = "idle"
    /\ tresult = NoResult

NoEntry == [key |-> NoTask, job |-> 0, seq |-> 0]
NoResp == [op |-> "none", key |-> NoTask, ret |-> FALSE]

\* the queue after TasksQueue.__init__
QInit ==
    /\ q = <<>>
    /\ running = FALSE
    /\ running_task = NoTask
    /\ results = <<>>
    /\ clock = 0
    /\ wpc = [w \in Workers |-> "none"]
    /\ went = [w \in Workers |-> NoEntry]
    /\ rpc = [r \in Reqs |-> "idle"]
    /\ enq = 0
    /\ started = <<>>
    /\ resp = NoResp

\* the clock moves on by a second
Tick ==
    /\ clock < MaxClock
    /\ clock' = clock + 1
    /\ UNCHANGED nonq
    /\ UNCHANGED <<q, running, running_task, results, wpc, went, rpc, enq,
                   started, resp>>

(* --------------------------- enqueue_task -------------------------- *)
\* tasks_queue.enqueue(run id, t)
EnqueueAppend(r, j) ==
    /\ rpc[r] = "idle"
    /\ enq < MaxEnq
    /\ enq' = enq + 1
    /\ q' = Append(q, [key |-> RunId(j, clock), job |-> j, seq |-> enq + 1])
    /\ rpc' = [rpc EXCEPT ![r] = "check"]
    /\ UNCHANGED nonq
    /\ UNCHANGED <<running, running_task, results, clock, wpc, went, started, resp>>

\* if not tasks_queue.running:
EnqueueCheck(r) ==
    /\ rpc[r] = "check"
    /\ rpc' = [rpc EXCEPT ![r] = IF running THEN "idle" ELSE "start"]
    /\ UNCHANGED nonq
    /\ UNCHANGED <<q, running, running_task, results, clock, wpc, went, enq,
                   started, resp>>

\* TasksQueue.start(): running = True and a new thread enters working()
Start(r) ==
    /\ rpc[r] = "start"
    /\ running' = TRUE
    /\ \E w \in Workers :
         /\ wpc[w] = "none"
         /\ \A v \in Workers : wpc[v] = "none" => w <= v
         /\ wpc' = [wpc EXCEPT ![w] = "while"]
    /\ rpc' = [rpc EXCEPT ![r] = "idle"]
    /\ UNCHANGED nonq
    /\ UNCHANGED <<q, running_task, results, clock, went, enq, started, resp>>

(* ------------------------ TasksQueue.working ----------------------- *)
\* while self.running:  (the thread ends when it reads False)
WorkWhile(w) ==
    /\ wpc[w] = "while"
    /\ wpc' = [wpc EXCEPT ![w] = IF running THEN "if" ELSE "none"]
    /\ UNCHANGED nonq
    /\ UNCHANGED <<q, running, running_task, results, clock, went, rpc, enq,
                   started, resp>>

\* if self._q:
WorkIf(w) ==
    /\ wpc[w] = "if"
    /\ wpc' = [wpc EXCEPT ![w] = IF q # <<>> THEN "pop" ELSE "else"]
    /\ UNCHANGED nonq
    /\ UNCHANGED <<q, running, running_task, results, clock, went, rpc, enq,
                   started, resp>>

\* self._q.popleft(): IndexError on an empty deque ends the thread
WorkPop(w) ==
    /\ wpc[w] = "pop"
    /\ IF q = <<>>
       THEN /\ wpc' = [wpc EXCEPT ![w] = "none"]
            /\ UNCHANGED <<q, went>>
       ELSE /\ went' = [went EXCEPT ![w] = Head(q)]
            /\ q' = Tail(q)
            /\ wpc' = [wpc EXCEPT ![w] = "assign"]
    /\ UNCHANGED nonq
    /\ UNCHANGED <<running, running_task, results, clock, rpc, enq, started, resp>>

\* self.running_task, t = <the popped entry>
WorkAssign(w) ==
    /\ wpc[w] = "assign"
    /\ running_task' = went[w].key
    /\ wpc' = [wpc EXCEPT ![w] = "try"]
    /\ UNCHANGED nonq
    /\ UNCHANGED <<q, running, results, clock, went, rpc, enq, started, resp>>

\* task = Task(...); task.execute() begins
WorkExecute(w) ==
    /\ wpc[w] = "try"
    /\ started' = Append(started, went[w].seq)
    /\ wpc' = [wpc EXCEPT ![w] = "execute"]
    /\ UNCHANGED nonq
    /\ UNCHANGED <<q, running, running_task, results, clock, went, rpc, enq, resp>>

\* self.results[self.running_task] = <result or failure record>
WorkStore(w) ==
    /\ wpc[w] = "execute"
    /\ results' = (running_task :> TryResult(TaskRaises(JobDB(went[w].job)),
                                            TaskExecute(JobDB(went[w].job)))) @@ results
    /\ wpc' = [wpc EXCEPT ![w] = "clear"]
    /\ UNCHANGED nonq
    /\ UNCHANGED <<q, running, running_task, clock, went, rpc, enq, started, resp>>

\* self.running_task = ''
WorkClear(w) ==
    /\ wpc[w] = "clear"
    /\ running_task' = NoTask
    /\ wpc' = [wpc EXCEPT ![w] = "while"]
    /\ went' = [went EXCEPT ![w] = NoEntry]
    /\ UNCHANGED nonq
    /\ UNCHANGED <<q, running, results, clock, rpc, enq, started, resp>>

\* else: self.running = False
WorkElse(w) ==
    /\ wpc[w] = "else"
    /\ running' = FALSE
    /\ wpc' = [wpc EXCEPT ![w] = "while"]
    /\ UNCHANGED nonq
    /\ UNCHANGED <<q, running_task, results, clock, went, rpc, enq, started, resp>>

(* --------------------------- dequeue_task -------------------------- *)
\* the index of the first entry of s with run id k, 0 if none
FirstIndex(s, k) ==
    IF \E i \in 1 .. Len(s) : s[i].key = k
    THEN CHOOSE i \in 1 .. Len(s) :
            /\ s[i].key = k
            /\ \A h \in 1 .. i - 1 : s[h].key # k
    ELSE 0

\* s without its element at index i
RemoveAt(s, i) == SubSeq(s, 1, i - 1) \o SubSeq(s, i + 1, Len(s))

\* m without its key k
Without(m, k) == [x \in DOMAIN m \ {k} |-> m[x]]

\* dequeue_task discarding every stored result
DequeueClear(k) ==
    /\ IF k \in DOMAIN results
       THEN /\ results' = <<>>
            /\ resp' = [op |-> "dequeue", key |-> k, ret |-> TRUE]
            /\ UNCHANGED q
       ELSE IF FirstIndex(q, k) # 0
       THEN /\ q' = RemoveAt(q, FirstIndex(q, k))
            /\ resp' = [op |-> "dequeue", key |-> k, ret |-> TRUE]
            /\ UNCHANGED results
       ELSE /\ resp' = [op |-> "dequeue", key |-> k, ret |-> FALSE]
            /\ UNCHANGED <<q, results>>
    /\ UNCHANGED nonq
    /\ UNCHANGED <<running, running_task, clock, wpc, went, rpc, enq, started>>

\* dequeue_task(_id): discard the stored result, else TasksQueue.remove(_id)
Dequeue(k) ==
    /\ IF k \in DOMAIN results
       THEN /\ results' = Without(results, k)
            /\ resp' = [op |-> "dequeue", key |-> k, ret |-> TRUE]
            /\ UNCHANGED q
       ELSE IF FirstIndex(q, k) # 0
       THEN /\ q' = RemoveAt(q, FirstIndex(q, k))
            /\ resp' = [op |-> "dequeue", key |-> k, ret |-> TRUE]
            /\ UNCHANGED results
       ELSE /\ resp' = [op |-> "dequeue", key |-> k, ret |-> FALSE]
            /\ UNCHANGED <<q, results>>
    /\ UNCHANGED nonq
    /\ UNCHANGED <<running, running_task, clock, wpc, went, rpc, enq, started>>

(* ------------------------------------------------------------------ *)
(* Claims about the job queue                                          *)
(* ------------------------------------------------------------------ *)
\* the worker threads inside working()
Alive == {w \in Workers : wpc[w] # "none"}
\* the worker threads inside Task.execute()
Executing == {w \in Workers : wpc[w] = "execute"}
\* no enqueue request is between its append and its return
NoRequest == \A r \in Reqs : rpc[r] = "idle"
\* run id k is waiting in the queue
Queued(s, k) == FirstIndex(s, k) # 0
\* the Task of run id k is being constructed or executed by a worker
IsRunning(k) == \E w \in Workers : wpc[w] \in {"try", "execute"} /\ went[w].key = k

\* C1: at most one worker thread is alive in the loop and at most one
\* Task.execute() is in progress, in every interleaving of enqueue requests
\* with the worker loop.
C1_OneTaskAtATime ==
    /\ Cardinality(Alive) <= 1
    /\ Cardinality(Executing) <= 1

\* C2: no state is reachable in which the queue is non-empty, no worker is
\* alive and no enqueue request is under way (the entry would stay waiting
\* until a further enqueue).
C2_NoEntryLeftWaiting ==
    ~(q # <<>> /\ Alive = {} /\ NoRequest)

\* C3: executions start in enqueue order: an entry enqueued earlier starts
\* before every entry enqueued later.
C3_StartedInEnqueueOrder ==
    \A i, j \in 1 .. Len(started) : i < j => started[i] < started[j]

\* C4: when the Task of a worker fails, the worker stores the structured
\* failure under that Task's run id.
C4_FailureStoredUnderRunId ==
    [][\A w \in Workers :
          (wpc[w] = "execute" /\ wpc'[w] = "clear" /\ TaskRaises(JobDB(went[w].job)))
          => (went[w].key \in DOMAIN results' /\ results'[went[w].key] = Failure)]_vars

\* C6: cancelling the run id of a queued, not yet started entry removes it
\* (no entry of that run id stays queued, none gets a result); cancelling the
\* run id of the running Task returns False and changes nothing.
C6_CancelByRunId ==
    [][\A k \in AllKeys :
          Dequeue(k) =>
            /\ (Queued(q, k) /\ ~IsRunning(k))
                 => (resp'.ret /\ ~Queued(q', k) /\ k \notin DOMAIN results')
            /\ IsRunning(k)
                 => (~resp'.ret /\ q' = q /\ results' = results)]_vars

QNext ==
    \/ Tick
    \/ \E r \in Reqs, j \in Jobs : EnqueueAppend(r, j)
    \/ \E r \in Reqs : EnqueueCheck(r)
    \/ \E r \in Reqs : Start(r)
    \/ \E w \in Workers : WorkWhile(w)
    \/ \E w \in Workers : WorkIf(w)
    \/ \E w \in Workers : WorkPop(w)
    \/ \E w \in Workers : WorkAssign(w)
    \/ \E w \in Workers : WorkExecute(w)
    \/ \E w \in Workers : WorkStore(w)
    \/ \E w \in Workers : WorkClear(w)
    \/ \E w \in Workers : WorkElse(w)
    \/ \E k \in AllKeys \cup {NoTask} : Dequeue(k)

Init == QInit /\ TIdle /\ fetched = NoFetch /\ VIdle /\ DIdle /\ PIdle /\ XIdle
Next == QNext
Spec == Init /\ [][Next]_vars

(* ------------------------------------------------------------------ *)
(* One Task under the worker's try/except                              *)
(* ------------------------------------------------------------------ *)
TaskSet ==
    {TaskOf(n, f, r, c) : n \in 0 .. MaxRecords, f \in 0 .. MaxRecords,
                          r \in BOOLEAN, c \in BOOLEAN}

\* Task(datasource=..., pipeline=...): a specification error raises here
TaskConstruct ==
    /\ tphase = "new"
    /\ tphase' = IF task.ctor THEN "run" ELSE "raised"
    /\ UNCHANGED <<task, tpos, tacc, tresult>>
    /\ UNCHANGED <<qvars, fetched, vvars, dvars, pvars, xvars>>

\* the Task advances its next record: the output is collected; a record
\* that raises is dropped under resume_next and aborts the Task otherwise
TaskAdvance ==
    /\ tphase = "run"
    /\ tpos <= task.n
    /\ IF tpos # task.failAt
       THEN /\ tacc' = Append(tacc, Out(tpos))
            /\ tpos' = tpos + 1
            /\ UNCHANGED tphase
       ELSE IF task.resume_next
       THEN /\ tpos' = tpos + 1
            /\ UNCHANGED <<tacc, tphase>>
       ELSE /\ tphase' = "raised"
            /\ UNCHANGED <<tacc, tpos>>
    /\ UNCHANGED <<task, tresult>>
    /\ UNCHANGED <<qvars, fetched, vvars, dvars, pvars, xvars>>

\* the source is exhausted: execute() returns the collected outputs
TaskReturn ==
    /\ tphase = "run"
    /\ tpos > task.n
    /\ tphase' = "returned"
    /\ UNCHANGED <<task, tpos, tacc, tresult>>
    /\ UNCHANGED <<qvars, fetched, vvars, dvars, pvars, xvars>>

\* the worker stores the Task's result, or the failure record
TaskStore ==
    /\ tphase \in {"returned", "raised"}
    /\ tresult' = TryResult(tphase = "raised", [kind |-> "list", items |-> tacc])
    /\ tphase' = "stored"
    /\ UNCHANGED <<task, tpos, tacc>>
    /\ UNCHANGED <<qvars, fetched, vvars, dvars, pvars, xvars>>

TInit ==
    /\ task \in {t \in TaskSet : t.failAt <= t.n}
    /\ tpos = 1
    /\ tacc = <<>>
    /\ tphase = "new"
    /\ tresult = NoResult

TNext ==
    \/ TaskConstruct
    \/ TaskAdvance
    \/ TaskReturn
    \/ TaskStore

InitTask == QInit /\ TInit /\ fetched = NoFetch /\ VIdle /\ DIdle /\ PIdle /\ XIdle
SpecTask == InitTask /\ [][TNext]_vars

\* C5: for a Task over n records of which exactly one raises, the stored
\* result is, under resume_next, the list of the other n - 1 outputs in
\* order, and otherwise the single failure record with no partial list.
C5_PerRecordFailurePolicy ==
    (tphase = "stored" /\ task.ctor /\ task.failAt \in 1 .. task.n) =>
        IF task.resume_next
        THEN /\ tresult.kind = "list"
             /\ Len(tresult.items) = task.n - 1
             /\ \A i \in 1 .. task.n - 1 :
                   tresult.items[i] = Out(IF i < task.failAt THEN i ELSE i + 1)
        ELSE /\ tresult.kind = "failure"
             /\ tresult.items = <<>>

\* C5 witness: a Task over 5 records whose third record raised, stored
\* with the four other outputs under resume_next
C5_Witness ==
    /\ tphase = "stored" /\ task.ctor /\ task.resume_next
    /\ task.n = 5 /\ task.failAt = 3
    /\ tresult.items = <<Out(1), Out(2), Out(4), Out(5)>>

(* ------------------------------------------------------------------ *)
(* fetch_task over the stored results                                  *)
(* ------------------------------------------------------------------ *)
Min(a, b) == IF a < b THEN a ELSE b
Max(a, b) == IF a > b THEN a ELSE b

\* Python's s[start:stop]: a negative index counts from the end, indexes
\* are clamped to the sequence
PySlice(s, start, stop) ==
    LET n == Len(s)
        a == IF start < 0 THEN Max(start + n, 0) ELSE Min(start, n)
        b == IF stop < 0 THEN Max(stop + n, 0) ELSE Min(stop, n)
    IN  IF a < b THEN SubSeq(s, a + 1, b) ELSE <<>>

\* fetch_task losing the element at the offset (r[offset+1:offset+limit])
FetchTaskOffByOne(res, k, o, l) ==
    LET base == [NoFetch EXCEPT !.op = "fetch", !.key = k, !.offset = o, !.limit = l]
    IN  IF k \notin DOMAIN res
        THEN [base EXCEPT !.status = 404, !.kind = "text"]
        ELSE IF res[k].kind = "list"
        THEN [base EXCEPT !.status = 200, !.kind = "slice",
                          !.results = PySlice(res[k].items, o + 1, o + l),
                          !.total = Len(res[k].items)]
        ELSE [base EXCEPT !.status = 200, !.kind = "json", !.body = res[k]]

\* the response of fetch_task(_id) with ?offset=o&limit=l: 404 for an unknown
\* run id, the window and the total for a list, None, the file's bytes as an
\* attachment, or the value as JSON
FetchTask(res, k, o, l) ==
    LET base == [NoFetch EXCEPT !.op = "fetch", !.key = k, !.offset = o, !.limit = l]
    IN  IF k \notin DOMAIN res
        THEN [base EXCEPT !.status = 404, !.kind = "text"]
        ELSE IF res[k].kind = "list"
        THEN [base EXCEPT !.status = 200, !.kind = "slice",
                          !.results = PySlice(res[k].items, o, o + l),
                          !.total = Len(res[k].items)]
        ELSE IF res[k].kind = "none"
        THEN [base EXCEPT !.status = 200, !.kind = "null", !.body = res[k]]
        ELSE IF res[k].kind = "file"
        THEN [base EXCEPT !.status = 200, !.kind = "attachment", !.body = res[k]]
        ELSE [base EXCEPT !.status = 200, !.kind = "json", !.body = res[k]]

\* GET /api/queue/<_id>
Fetch(k, o, l) ==
    /\ fetched' = FetchTask(results, k, o, l)
    /\ UNCHANGED <<qvars, tvars, vvars, dvars, pvars, xvars>>

\* the results a Task may have stored: a list, a failure record, an
\* aggregate value, None, or a file
StoredValues ==
    {[kind |-> "list", items |-> Outputs(1, n, 0)] : n \in 0 .. MaxList}
    \cup {Failure, NoResult,
          [kind |-> "value", items |-> <<7>>],
          [kind |-> "file", items |-> <<8, 9>>]}

\* the run ids of the fetch specification: two that may hold a result and
\* one that never does
FetchKeys == {RunId(1, 0), RunId(2, 0)}
MissingKey == RunId(1, 1)

FInit ==
    /\ \E d \in SUBSET FetchKeys : results \in [d -> StoredValues]
    /\ q = <<>>
    /\ running = FALSE
    /\ running_task = NoTask
    /\ clock = 0
    /\ wpc = [w \in Workers |-> "none"]
    /\ went = [w \in Workers |-> NoEntry]
    /\ rpc = [r \in Reqs |-> "idle"]
    /\ enq = 0
    /\ started = <<>>
    /\ resp = NoResp
    /\ fetched = NoFetch

FNext ==
    \/ \E k \in FetchKeys \cup {MissingKey}, o \in -1 .. MaxOffset, l \in -1 .. MaxLimit :
          Fetch(k, o, l)
    \/ \E k \in FetchKeys \cup {MissingKey} : Dequeue(k)

InitFetch == FInit /\ TIdle /\ VIdle /\ DIdle /\ PIdle /\ XIdle
SpecFetch == InitFetch /\ [][FNext]_vars

\* C8: fetch of a stored list r with offset o >= 0 and limit l >= 0 returns
\* r[o], ..., r[min(o+l, len(r)) - 1] in order with total = len(r); a stored
\* non-list result is returned whole; an unknown run id is not found; the
\* stored results are unchanged.
C8_FetchWindow ==
    [][LET k == fetched'.key
           o == fetched'.offset
           l == fetched'.limit
       IN  (fetched'.op = "fetch" /\ o >= 0 /\ l >= 0 /\ Fetch(k, o, l)) =>
            /\ results' = results
            /\ k \notin DOMAIN results => fetched'.status = 404
            /\ (k \in DOMAIN results /\ results[k].kind = "list") =>
                 LET r == results[k].items
                     last == Min(o + l, Len(r))
                 IN  /\ fetched'.status = 200
                     /\ fetched'.total = Len(r)
                     /\ Len(fetched'.results) = Max(last - o, 0)
                     /\ \A i \in 1 .. Len(fetched'.results) :
                           fetched'.results[i] = r[o + i]
            /\ (k \in DOMAIN results /\ results[k].kind # "list") =>
                 /\ fetched'.status = 200
                 /\ fetched'.body = results[k]]_vars

\* C8 witness: a window that starts inside a stored list of three elements
\* and is cut at its end
C8_Witness ==
    /\ fetched.op = "fetch" /\ fetched.key \in DOMAIN results
    /\ results[fetched.key].items = <<Out(1), Out(2), Out(3)>>
    /\ fetched.offset = 1 /\ fetched.limit = 3
    /\ fetched.results = <<Out(2), Out(3)>>
    /\ fetched.total = 3

(* ------------------------------------------------------------------ *)
(* dequeue_task over any waiting entries, running id and results       *)
(* ------------------------------------------------------------------ *)
\* the queues of up to MaxWaiting entries over the run ids of the fetch
\* specification (one job may be enqueued twice within a second)
WaitingQueues ==
    UNION {[1 .. n -> FetchKeys \cup {MissingKey}] : n \in 0 .. MaxWaiting}

CInit ==
    /\ \E d \in SUBSET FetchKeys : results \in [d -> StoredValues]
    /\ \E ks \in WaitingQueues :
          q = [i \in 1 .. Len(ks) |-> [key |-> ks[i], job |-> ks[i][1], seq |-> i]]
    /\ running_task \in {NoTask} \cup FetchKeys \cup {MissingKey}
    /\ running = (running_task # NoTask)
    /\ clock = 0
    /\ wpc = [w \in Workers |-> "none"]
    /\ went = [w \in Workers |-> NoEntry]
    /\ rpc = [r \in Reqs |-> "idle"]
    /\ enq = Len(q)
    /\ started = <<>>
    /\ resp = NoResp
    /\ fetched = NoFetch

CNext == \E k \in FetchKeys \cup {MissingKey, NoTask} : Dequeue(k)

InitCancel == CInit /\ TIdle /\ VIdle /\ DIdle /\ PIdle /\ XIdle
SpecCancel == InitCancel /\ [][CNext]_vars

\* C7: cancelling a run id that has a stored result discards exactly that
\* result: fetch of the run id then reports not-found, every other result
\* is unchanged, the waiting entries and the running id are unchanged.
C7_DiscardExactlyThatResult ==
    [][LET k == resp'.key
       IN  (resp'.op = "dequeue" /\ Dequeue(k) /\ k \in DOMAIN results) =>
            /\ FetchTask(results', k, 0, 100).status = 404
            /\ DOMAIN results' = DOMAIN results \ {k}
            /\ \A x \in DOMAIN results' : results'[x] = results[x]
            /\ q' = q
            /\ running_task' = running_task
            /\ running' = running]_vars

\* C7 witness: no entry has left the queue, a cancel returned True for a run
\* id that is now absent from the results while an entry of the same run id
\* is waiting and it is the running id, and another result is still stored
C7_Witness ==
    /\ resp.op = "dequeue" /\ resp.ret
    /\ Len(q) = MaxWaiting
    /\ Queued(q, resp.key)
    /\ running_task = resp.key
    /\ resp.key \notin DOMAIN results
    /\ Cardinality(DOMAIN results) = 1

(* ------------------------------------------------------------------ *)
(* valid_task                                                          *)
(* ------------------------------------------------------------------ *)
\* None
Null == 0

\* Task.datasource_ctx: data-source name -> the parameters its constructor
\* declares after self (inspect.getfullargspec(t.__init__).args[1:]);
\* TwitterDataSource.__init__(self, **params) declares none
datasource_ctx ==
    [n \in {"DBQueryDataSource", "TwitterDataSource"} |->
        IF n = "DBQueryDataSource"
        THEN {"query", "mongocollections", "limit", "skip", "sort", "raw", "groups"}
        ELSE {}]

\* Pipeline.pipeline_ctx: stage name -> the parameters its constructor declares
pipeline_ctx ==
    [n \in {"RepeatWhile", "Condition"} |->
        IF n = "RepeatWhile"
        THEN {"pipeline", "times", "cond"}
        ELSE {"cond", "iftrue", "iffalse"}]

\* _valid_args dropping only the keys that are not parameters
valid_args_keep_null(argnames, args) ==
    [k \in {x \in DOMAIN args : ~(x \notin argnames)} |-> args[k]]

\* _valid_args(t, args): the keys that are no parameter of t, or hold None,
\* are deleted
valid_args(argnames, args) ==
    LET toremove == {k \in DOMAIN args : k \notin argnames \/ args[k] = Null}
    IN  [k \in DOMAIN args \ toremove |-> args[k]]

\* valid_task(j) looks up a name the registries do not hold (KeyError)
valid_task_raises(j) ==
    \/ "datasource" \in DOMAIN j /\ j["datasource"] \notin DOMAIN datasource_ctx
    \/ "pipeline" \in DOMAIN j /\
          \E i \in 1 .. Len(j["pipeline"]) :
              j["pipeline"][i].name \notin DOMAIN pipeline_ctx

\* valid_task(j)
valid_task(j) ==
    LET j1 == IF "datasource" \in DOMAIN j
              THEN j ELSE ("datasource" :> "DBQueryDataSource") @@ j
        j2 == IF "datasource_config" \in DOMAIN j1
              THEN j1 ELSE ("datasource_config" :> EmptyMap) @@ j1
        j3 == [j2 EXCEPT !["datasource_config"] =
                            valid_args(datasource_ctx[j2["datasource"]], @)]
        j4 == IF "pipeline" \in DOMAIN j3
              THEN j3 ELSE ("pipeline" :> <<>>) @@ j3
    IN  [j4 EXCEPT !["pipeline"] =
            [i \in 1 .. Len(@) |->
                [name |-> @[i].name,
                 args |-> valid_args(pipeline_ctx[@[i].name], @[i].args)]]]

\* the configurations of the jobs validated: a key is absent, None or set
ConfigsOver(keys) ==
    UNION {[d -> {Null, 1}] : d \in SUBSET keys}

DsNames == {"DBQueryDataSource", "TwitterDataSource", "NoSuchSource"}
DsConfigs == ConfigsOver({"query", "x"})
StageSpecs ==
    {[name |-> n, args |-> a] :
        n \in {"RepeatWhile", "Condition"}, a \in ConfigsOver({"times", "x"})}
Pipelines == UNION {[1 .. n -> StageSpecs] : n \in 0 .. MaxStages}

\* a dict with the one key k, or without it
Opt(k, values) == {EmptyMap} \cup {k :> v : v \in values}

VInit ==
    /\ \E d \in Opt("datasource", DsNames),
          c \in Opt("datasource_config", DsConfigs),
          p \in Opt("pipeline", Pipelines) :
          job = d @@ c @@ p
    /\ validated = EmptyMap
    /\ vphase = "new"

\* j = valid_task(request.json)
Validate ==
    /\ vphase = "new"
    /\ IF valid_task_raises(job)
       THEN /\ vphase' = "error"
            /\ UNCHANGED validated
       ELSE /\ vphase' = "done"
            /\ validated' = valid_task(job)
    /\ UNCHANGED job
    /\ UNCHANGED <<qvars, tvars, fetched, dvars, pvars, xvars>>

VNext == Validate

InitValid == QInit /\ TIdle /\ fetched = NoFetch /\ VInit /\ DIdle /\ PIdle /\ XIdle
SpecValid == InitValid /\ [][VNext]_vars

\* the value of key k of dict j, or the default d when j has no such key
GetOr(j, k, d) == IF k \in DOMAIN j THEN j[k] ELSE d

\* the keys of args that are declared in argnames and not None
Kept(argnames, args) == {k \in DOMAIN args : k \in argnames /\ args[k] # Null}

\* C9: after valid_task(j) the data-source configuration and every stage's
\* configuration hold exactly the input keys that are declared parameters
\* of the resolved implementation with a non-null value, each value
\* unchanged; stage names and order are unchanged; a missing datasource,
\* datasource_config or pipeline is replaced by 'DBQueryDataSource', {}, [].
C9_ValidTask ==
    vphase = "done" =>
        LET ds == GetOr(job, "datasource", "DBQueryDataSource")
            cfg == GetOr(job, "datasource_config", EmptyMap)
            pl == GetOr(job, "pipeline", <<>>)
        IN  /\ DOMAIN validated = {"datasource", "datasource_config", "pipeline"}
            /\ validated["datasource"] = ds
            /\ DOMAIN validated["datasource_config"] = Kept(datasource_ctx[ds], cfg)
            /\ \A k \in DOMAIN validated["datasource_config"] :
                  validated["datasource_config"][k] = cfg[k]
            /\ Len(validated["pipeline"]) = Len(pl)
            /\ \A i \in 1 .. Len(pl) :
                  /\ validated["pipeline"][i].name = pl[i].name
                  /\ DOMAIN validated["pipeline"][i].args =
                        Kept(pipeline_ctx[pl[i].name], pl[i].args)
                  /\ \A k \in DOMAIN validated["pipeline"][i].args :
                        validated["pipeline"][i].args[k] = pl[i].args[k]

\* C9 witness: a job without datasource whose configuration holds a
\* declared key, and two stages of which the first holds a null parameter
\* and the second an undeclared key
C9_Witness ==
    /\ vphase = "done"
    /\ "datasource" \notin DOMAIN job
    /\ "datasource_config" \in DOMAIN job
    /\ job["datasource_config"] = [k \in {"query", "x"} |-> 1]
    /\ validated["datasource_config"] = [k \in {"query"} |-> 1]
    /\ "pipeline" \in DOMAIN job
    /\ Len(job["pipeline"]) = 2
    /\ job["pipeline"][1] = [name |-> "RepeatWhile", args |-> [k \in {"times"} |-> Null]]
    /\ job["pipeline"][2] = [name |-> "Condition", args |-> [k \in {"x"} |-> 1]]
    /\ validated["pipeline"][1].args = EmptyMap
    /\ validated["pipeline"][2].args = EmptyMap

(* ------------------------------------------------------------------ *)
(* DBQuery: fetch_rs, fetch_all_rs, fetch, count                       *)
(* ------------------------------------------------------------------ *)
\* a record of collection c: its _id and its pdate
Rec(c, i) == [coll |-> c, id |-> i, pdate |-> i]

\* the n matching records of collection c in the order they were inserted
Stored(c, n) == [i \in 1 .. n |-> Rec(c, i)]

Stage(op, n, by) == [op |-> op, n |-> n, by |-> by]

\* a sorts before b under the sort `by`: "default" is pdate descending,
\* then _id ascending
Before(a, b, by) ==
    IF by = "default"
    THEN a.pdate > b.pdate \/ (a.pdate = b.pdate /\ a.id < b.id)
    ELSE IF by = "-pdate" THEN a.pdate > b.pdate
    ELSE a.pdate < b.pdate

RECURSIVE SortRecs(_, _)
\* $sort: a stable sort of recs
SortRecs(recs, by) ==
    IF recs = <<>> THEN <<>>
    ELSE LET firsts == {i \in 1 .. Len(recs) :
                           \A j \in 1 .. Len(recs) : ~Before(recs[j], recs[i], by)}
             i == CHOOSE x \in firsts : \A y \in firsts : x <= y
         IN  <<recs[i]>> \o SortRecs(RemoveAt(recs, i), by)

\* the records of a collection as the random state k hands them out
Rotate(recs, k) ==
    IF recs = <<>> THEN <<>>
    ELSE [i \in 1 .. Len(recs) |-> recs[((i - 1 + k) % Len(recs)) + 1]]

RECURSIVE Aggregate(_, _)
\* rs.aggregate(agg): the stages applied to the records in their order; a
\* $match keeps the matching records, which are all the model stores; a
\* $sample of size n takes n records, which ones the random state decides
Aggregate(recs, agg) ==
    IF agg = <<>> THEN recs
    ELSE LET st == Head(agg)
             out == IF st.op = "$sort" THEN SortRecs(recs, st.by)
                    ELSE IF st.op = "$skip" THEN SubSeq(recs, st.n + 1, Len(recs))
                    ELSE IF st.op = "$limit"
                    THEN SubSeq(recs, 1, Min(st.n, Len(recs)))
                    ELSE IF st.op = "$sample"
                    THEN SubSeq(Rotate(recs, seed), 1, Min(st.n, Len(recs)))
                    ELSE recs
         IN  Aggregate(out, Tail(agg))

\* the identity sort of fetch_rs, appending whatever the query holds
WithDefaultSortAlways(qry) == Append(qry, Stage("$sort", 0, "default"))

\* the identity sort of fetch_rs: the default sort stage is appended to a
\* query that holds no $sort stage
WithDefaultSort(qry) ==
    IF \E i \in 1 .. Len(qry) : qry[i].op = "$sort"
    THEN qry
    ELSE Append(qry, Stage("$sort", 0, "default"))

\* fetch_rs(mongocollection, sort, limit, skip) on a DBQuery whose query is
\* qry and whose skips are sk: agg is self.query itself, so the stages
\* appended stay in the query; the query afterwards, the result set, and
\* ok = FALSE when the aggregation of the collection raises
FetchRs(qry, sk, coll, sortArg, limitArg, skipArg) ==
    LET sort == IF sortArg = "None" THEN dsort ELSE sortArg
        skip0 == IF skipArg < 0 THEN GetOr(sk, coll, 0) ELSE skipArg
        limit0 == IF limitArg < 0 THEN dlimit ELSE limitArg
        a1 == IF sort \in {"", "id"}
              THEN WithDefaultSort(qry)
              ELSE IF sort = "random"
              THEN Append(qry, Stage("$sample", limit0, ""))
              ELSE Append(qry, Stage("$sort", 0, sort))
        limit == IF sort = "random" THEN 0 ELSE limit0
        skip == IF sort = "random" THEN 0 ELSE skip0
        a2 == IF skip > 0 THEN Append(a1, Stage("$skip", skip, "")) ELSE a1
        a3 == IF limit > 0 THEN Append(a2, Stage("$limit", limit, "")) ELSE a2
    IN  [query |-> a3,
         ok |-> coll \notin broken,
         rs |-> IF coll \in broken THEN <<>> ELSE Aggregate(store[coll], a3)]

\* one aggregation: the collection, the pipeline it ran, and whether its
\* records were counted or yielded
Pipe(coll, agg, use) == [coll |-> coll, agg |-> agg, use |-> use]

\* a call of fetch_all_rs or count as it starts
Begin == [query |-> query, skips |-> skips, out |-> <<>>, sum |-> 0,
          pipes |-> <<>>, ok |-> TRUE]

RECURSIVE CountSkips(_, _, _)
\* the first loop of fetch_all_rs from collection i on, with skip records
\* still to pass over: a collection that holds no more than that is marked
\* -1, the first larger one gets the remainder and ends the loop
CountSkips(i, skip, s) ==
    IF i > Len(mongocollections) THEN s
    ELSE LET coll == mongocollections[i]
             r == FetchRs(s.query, s.skips, coll, "id", 0, 0)
             s1 == [s EXCEPT !.query = r.query,
                             !.pipes = Append(@, Pipe(coll, r.query, "count"))]
             count == Len(r.rs)
         IN  IF ~r.ok THEN [s1 EXCEPT !.ok = FALSE]
             ELSE IF count <= skip
             THEN CountSkips(i + 1, skip - count,
                             [s1 EXCEPT !.skips = (coll :> -1) @@ @])
             ELSE [s1 EXCEPT !.skips = (coll :> skip) @@ @]

RECURSIVE YieldAll(_, _)
\* the second loop of fetch_all_rs from collection i on: the records of
\* every collection whose entry in skips is not negative
YieldAll(i, s) ==
    IF i > Len(mongocollections) THEN s
    ELSE LET coll == mongocollections[i]
         IN  IF GetOr(s.skips, coll, 0) >= 0
             THEN LET r == FetchRs(s.query, s.skips, coll, "None", -1, -1)
                      s1 == [s EXCEPT !.query = r.query,
                                      !.out = @ \o r.rs,
                                      !.pipes = Append(@, Pipe(coll, r.query, "yield"))]
                  IN  IF r.ok THEN YieldAll(i + 1, s1)
                      ELSE [s1 EXCEPT !.ok = FALSE]
             ELSE YieldAll(i + 1, s)

\* fetch_all_rs(), consumed to its end or to the exception that ends it
FetchAllRs ==
    LET c == IF dskip > 0 THEN CountSkips(1, dskip, Begin) ELSE Begin
    IN  IF c.ok THEN YieldAll(1, c) ELSE c

\* DBQuery.fetch() without a plugin handler
DBFetch ==
    /\ dphase # "idle"
    /\ dcalls < MaxCalls
    /\ LET f == FetchAllRs
       IN  /\ query' = f.query
           /\ skips' = f.skips
           /\ dout' = f.out
           /\ dpipes' = f.pipes
           /\ dphase' = IF f.ok THEN "fetched" ELSE "raised"
    /\ dcalls' = dcalls + 1
    /\ seed' \in IF dsort = "random" THEN 0 .. MaxSeed ELSE {seed}
    /\ UNCHANGED <<store, mongocollections, dlimit, dskip, dsort, dcount, broken>>
    /\ UNCHANGED <<qvars, tvars, fetched, vvars, pvars, xvars>>

RECURSIVE CountFrom(_, _)
\* the list count() sums, from collection i on
CountFrom(i, s) ==
    IF i > Len(mongocollections) THEN s
    ELSE LET coll == mongocollections[i]
             r == FetchRs(s.query, s.skips, coll, "id", 0, 0)
             s1 == [s EXCEPT !.query = r.query,
                             !.sum = @ + Len(r.rs),
                             !.pipes = Append(@, Pipe(coll, r.query, "count"))]
         IN  IF r.ok THEN CountFrom(i + 1, s1)
             ELSE [s1 EXCEPT !.ok = FALSE]

\* what count() returns of the partial sum
CountPartial(s) == s.sum

\* what count() returns: the sum, or -1 when an exception was caught
CountResult(s) == IF s.ok THEN s.sum ELSE -1

\* DBQuery.count()
DBCount ==
    /\ dphase # "idle"
    /\ dcalls < MaxCalls
    /\ LET c == CountFrom(1, Begin)
       IN  /\ query' = c.query
           /\ dcount' = CountResult(c)
           /\ dpipes' = c.pipes
    /\ dphase' = "counted"
    /\ dcalls' = dcalls + 1
    /\ UNCHANGED <<store, mongocollections, dlimit, dskip, dsort, skips, dout,
                   broken, seed>>
    /\ UNCHANGED <<qvars, tvars, fetched, vvars, pvars, xvars>>

\* mongocollections of __init__: a falsy argument becomes '', whose split
\* is the list of the one name '', written noname
SplitCollections(arg, noname) == IF arg = <<>> THEN <<noname>> ELSE arg

\* the names a collection list holds
Names(colls) == {colls[i] : i \in 1 .. Len(colls)}

\* DBQuery(query, collections, limit, skip, sort) over collections of any
\* sizes, 0 being the collection of the name '', of which at most one raises when aggregated: the query compiles to
\* no stage or holds a $sort stage of its own, the empty sort becomes 'id'
DInit ==
    /\ \/ /\ \E k \in 0 .. MaxColls :
                mongocollections = SplitCollections([i \in 1 .. k |-> i], 0)
          /\ \E sizes \in [Names(mongocollections) -> 0 .. MaxSize] :
                store = [c \in Names(mongocollections) |-> Stored(c, sizes[c])]
          /\ broken \in {{}} \cup {{c} : c \in Names(mongocollections)}
          /\ query \in {<<>>, <<Stage("$sort", 0, "-pdate")>>}
          /\ dlimit \in {0, 2}
          /\ dskip \in 0 .. MaxSkip
          /\ dsort \in {"id", "random", "-pdate"}
       \/ /\ mongocollections = <<1, 2, 3>>
          /\ store = <<Stored(1, 5), Stored(2, 3), Stored(3, 7)>>
          /\ broken = {}
          /\ query = <<>>
          /\ dlimit = 0
          /\ dskip = 6
          /\ dsort = "id"
    /\ seed \in IF dsort = "random" THEN 0 .. MaxSeed ELSE {0}
    /\ skips = <<>>
    /\ dout = <<>>
    /\ dcount = 0
    /\ dpipes = <<>>
    /\ dphase = "new"
    /\ dcalls = 0

DNext ==
    \/ DBFetch
    \/ DBCount

InitDBQ == QInit /\ TIdle /\ fetched = NoFetch /\ VIdle /\ DInit /\ PIdle /\ XIdle
SpecDBQ == InitDBQ /\ [][DNext]_vars

\* DBQuery(query, collections, limit, skip, sort) with a sort that is not
\* 'random', over collections of at most MaxCounted records
DInitCount ==
    /\ \E k \in 0 .. MaxColls :
          mongocollections = SplitCollections([i \in 1 .. k |-> i], 0)
    /\ \E sizes \in [Names(mongocollections) -> 0 .. MaxCounted] :
          store = [c \in Names(mongocollections) |-> Stored(c, sizes[c])]
    /\ broken \in {{}} \cup {{c} : c \in Names(mongocollections)}
    /\ query \in {<<>>, <<Stage("$sort", 0, "-pdate")>>}
    /\ dlimit \in {0, 2}
    /\ dskip \in {0, 1}
    /\ dsort \in {"id", "-pdate"}
    /\ seed = 0
    /\ skips = <<>>
    /\ dout = <<>>
    /\ dcount = 0
    /\ dpipes = <<>>
    /\ dphase = "new"
    /\ dcalls = 0

InitCount == QInit /\ TIdle /\ fetched = NoFetch /\ VIdle /\ DInitCount /\ PIdle /\ XIdle
SpecCount == InitCount /\ [][DNext]_vars

RECURSIVE SortedConcat(_)
\* the sorted matching records of collections i.. in configured order
SortedConcat(i) ==
    IF i > Len(mongocollections) THEN <<>>
    ELSE SortRecs(store[mongocollections[i]], "default") \o SortedConcat(i + 1)

\* C10: with skip = s > 0 and no limit, fetch() yields the concatenation of
\* the collections' sorted matching records without its first s records,
\* every later record exactly once.
C10_GlobalSkip ==
    (/\ dphase = "fetched" /\ dskip > 0 /\ dlimit = 0 /\ dsort = "id"
     /\ broken = {}
     /\ \A i \in 1 .. Len(query) : query[i].by # "-pdate") =>
        dout = SubSeq(SortedConcat(1), dskip + 1, Len(SortedConcat(1)))

\* C10 on the collections sized [5, 3, 7] with skip = 6 alone
C10_Sizes537 ==
    (/\ dphase = "fetched" /\ dcalls = 1 /\ dskip = 6 /\ dlimit = 0
     /\ Len(mongocollections) = 3
     /\ Len(store[1]) = 5 /\ Len(store[2]) = 3 /\ Len(store[3]) = 7) =>
        dout = <<Rec(2, 2), Rec(2, 1)>> \o SortRecs(store[3], "default")

(* ------------------------------------------------------------------ *)
(* DBQuery: count and the sort of fetch_rs                             *)
(* ------------------------------------------------------------------ *)
RECURSIVE Matching(_)
\* the number of matching records of the configured collections i..
Matching(i) ==
    IF i > Len(mongocollections) THEN 0
    ELSE Len(store[mongocollections[i]]) + Matching(i + 1)

\* the stages of qry that are a $sort by `by`
SortStages(qry, by) ==
    {i \in 1 .. Len(qry) : qry[i].op = "$sort" /\ qry[i].by = by}

\* C13: count() returns the sum over the configured collections of their
\* matching records, whatever sort, limit and skip are configured and
\* whatever fetch() and count() calls came before it (stated here for the
\* sorts that add no $sample stage).
C13_CountIsSum ==
    (dphase = "counted" /\ broken = {} /\ dsort # "random") =>
        dcount = Matching(1)

\* C14: a DBQuery constructed with an empty collection list queries no
\* collection in count() and returns 0.
C14_EmptyListCountsZero ==
    (dphase = "counted" /\ mongocollections = SplitCollections(<<>>, 0)) =>
        (dpipes = <<>> /\ dcount = 0)

\* C15: count() returns -1 when the count of one of the configured
\* collections fails, whatever the collections before it hold, and a
\* count that does not fail never returns -1; the call ends by returning.
C15_CountSentinel ==
    dphase = "counted" =>
        IF broken \cap Names(mongocollections) # {}
        THEN dcount = -1
        ELSE dcount >= 0

\* C15 witness: the second of two collections fails after the first one
\* counted records, and count() returned -1
C15_Witness ==
    /\ dphase = "counted"
    /\ mongocollections = <<1, 2>>
    /\ broken = {2}
    /\ Len(store[1]) > 0
    /\ Len(dpipes) = 2
    /\ dcount = -1

\* C16: with sort = 'random', fetch() runs for every configured collection
\* a pipeline that ends in a $sample of the limit, and no pipeline it
\* yields from holds a $skip or $limit stage, whatever the skip.
C16_RandomSamplesEveryCollection ==
    (dphase = "fetched" /\ dsort = "random") =>
        /\ \A c \in Names(mongocollections) :
              \E j \in 1 .. Len(dpipes) :
                 /\ dpipes[j].use = "yield"
                 /\ dpipes[j].coll = c
                 /\ dpipes[j].agg[Len(dpipes[j].agg)] = Stage("$sample", dlimit, "")
        /\ \A j \in 1 .. Len(dpipes) :
              dpipes[j].use = "yield" =>
                 \A i \in 1 .. Len(dpipes[j].agg) :
                    dpipes[j].agg[i].op \notin {"$skip", "$limit"}

\* C17: after fetch() and count() calls with the identity sort the query
\* holds exactly one default sort stage when it held no $sort stage, and
\* no default sort stage when it held one.
C17_OneDefaultSort ==
    (dsort = "id" /\ dcalls >= 1) =>
        IF SortStages(query, "-pdate") # {}
        THEN SortStages(query, "default") = {}
        ELSE Cardinality(SortStages(query, "default")) = 1

\* C17 witness: two calls over two collections, so at least three calls of
\* fetch_rs, left one default sort stage in a query that held no stage
C17_Witness ==
    /\ dsort = "id"
    /\ dcalls = 2
    /\ Len(mongocollections) = 2
    /\ broken = {}
    /\ dphase = "counted"
    /\ Cardinality(SortStages(query, "default")) = 1
    /\ SortStages(query, "-pdate") = {}

(* ------------------------------------------------------------------ *)
(* DBQuery: _auto, _parse, _merge_req, __init__                        *)
(* ------------------------------------------------------------------ *)
\* the characters of the class _judge_type searches for, the two quotes
\* that are no apostrophe written DQUOTE and BACKQUOTE
Punctuation ==
    {",", ".", "~", "=", "&", "|", "(", ")", ">", "<", "'", "DQUOTE",
     "BACKQUOTE", "@", "_", "*", "-", "%"}

\* _judge_type: the string is an expression
judge_type(text) ==
    \/ text # <<>> /\ text[1] = "?"
    \/ \E i \in 1 .. Len(text) : text[i] \in Punctuation

RECURSIVE Cut(_, _)
\* jieba.cut on characters without a dictionary entry: the runs of
\* whitespace and the runs between them, cur being the run so far
Cut(text, cur) ==
    IF text = <<>> THEN IF cur = <<>> THEN <<>> ELSE <<cur>>
    ELSE IF cur = <<>> \/ (cur[1] = " ") = (Head(text) = " ")
    THEN Cut(Tail(text), Append(cur, Head(text)))
    ELSE <<cur>> \o Cut(Tail(text), <<Head(text)>>)

RECURSIVE LStrip(_, _)
\* str.lstrip(c)
LStrip(text, c) ==
    IF text # <<>> /\ Head(text) = c THEN LStrip(Tail(text), c) ELSE text

RECURSIVE RStrip(_, _)
\* the trailing half of str.strip()
RStrip(text, c) ==
    IF text # <<>> /\ text[Len(text)] = c
    THEN RStrip(SubSeq(text, 1, Len(text) - 1), c)
    ELSE text

\* str.strip()
Strip(text) == RStrip(LStrip(text, " "), " ")

\* str.lower()
Lower(text) ==
    [i \in 1 .. Len(text) |->
        IF text[i] = "A" THEN "a" ELSE IF text[i] = "B" THEN "b" ELSE text[i]]

RECURSIVE Terms(_)
\* the list _auto joins: the tokens that are not blank, trimmed and
\* lower-cased, in their order
Terms(tokens) ==
    IF tokens = <<>> THEN <<>>
    ELSE IF Strip(Head(tokens)) # <<>>
    THEN <<Lower(Strip(Head(tokens)))>> \o Terms(Tail(tokens))
    ELSE Terms(Tail(tokens))

\* the terms of _auto, every term once: without the later occurrences
auto_terms_once(text) ==
    LET terms == Terms(Cut(text, <<>>))
        firsts == {i \in 1 .. Len(terms) : \A j \in 1 .. i - 1 : terms[j] # terms[i]}
        RECURSIVE Pick(_)
        Pick(i) == IF i > Len(terms) THEN <<>>
                   ELSE IF i \in firsts THEN <<terms[i]>> \o Pick(i + 1)
                   ELSE Pick(i + 1)
    IN  Pick(1)

\* the terms of the expression _auto builds of a keyword string
auto_terms(text) == Terms(Cut(text, <<>>))

\* _auto: the mode, the expression without its sigils, the terms of the
\* backquoted list
auto(text) ==
    IF judge_type(text)
    THEN [is_expr |-> TRUE, expr |-> LStrip(text, "?"), terms |-> <<>>]
    ELSE [is_expr |-> FALSE, expr |-> <<>>, terms |-> auto_terms(text)]

\* the field of abbrev_prefixes[None]
Keywords == <<"keywords">>

\* parser.parse of what _auto returned: the stages given for an expression,
\* one condition on keywords over the terms, nothing for ''
parser_parse(a, stages) ==
    IF a.is_expr THEN stages
    ELSE IF a.terms = <<>> THEN <<>>
    ELSE <<St("plain", <<Keywords>> \o a.terms)>>

\* parser.parse of one expression string: the condition it denotes
Parsed(expr) == <<"parse">> \o expr

\* the limitations of _parse: a list whose first element is truthy becomes
\* one $and of its parsed elements, any other list stays what it is
Limitations(lims) ==
    IF lims # <<>> /\ lims[1] # <<>>
    THEN <<<<"$and">>>> \o [i \in 1 .. Len(lims) |-> Parsed(lims[i])]
    ELSE lims

\* MongoOperand(a) & MongoOperand(b)
And(a, b) == <<<<"(">>>> \o a \o <<<<"&">>>> \o b \o <<<<")">>>>

\* _merge_req that appends whatever the first stage is
merge_req_append(qparsed, req) ==
    IF req = <<>> THEN qparsed ELSE Append(qparsed, St("$match", req))

\* _merge_req
merge_req(qparsed, req) ==
    IF req = <<>> THEN qparsed
    ELSE IF qparsed[1].op = "$match"
    THEN <<St("$match", And(qparsed[1].arg, req))>> \o Tail(qparsed)
    ELSE Append(qparsed, St("$match", req))

\* the loop of _parse over one stage: a string is parsed into a $match, a
\* dict without operator is wrapped into one
Wrap(stage) ==
    IF stage.op = "str" THEN St("$match", <<Parsed(stage.arg[1])>>)
    ELSE IF stage.op = "plain" THEN St("$match", stage.arg)
    ELSE stage

\* DBQuery._parse((text, *lims)), stages being what the parser makes of
\* text when text is an expression
parse(text, stages, lims) ==
    LET limitations == Limitations(lims)
        parsed == parser_parse(auto(text), stages)
    IN  IF parsed = <<>>
        THEN IF limitations # <<>> THEN <<St("$match", limitations)>> ELSE <<>>
        ELSE merge_req([i \in 1 .. Len(parsed) |-> Wrap(parsed[i])], limitations)

RECURSIVE Split(_, _, _)
\* str.split(sep), cur being the segment so far
Split(text, sep, cur) ==
    IF text = <<>> THEN <<cur>>
    ELSE IF Head(text) = sep THEN <<cur>> \o Split(Tail(text), sep, <<>>)
    ELSE Split(Tail(text), sep, Append(cur, Head(text)))

\* the names pmanager.filters holds a handler for
Filters == {<<"p">>}

\* 'from'
From == <<"f", "r", "o", "m">>

\* str.startswith
StartsWith(text, prefix) ==
    Len(text) >= Len(prefix) /\ SubSeq(text, 1, Len(prefix)) = prefix

\* DBQuery.__init__(query, mongocollections, raw=raw, pmanager=pmanager) with
\* groups = 'none': the fields of the object
DBQueryInit(text, stages, lims, colls, raw, pmanager) ==
    LET q0 == parse(text, stages, lims)
        plugin == pmanager /\ Len(q0) > 0 /\ q0[Len(q0)].op = "$plugin"
        q1 == IF plugin THEN SubSeq(q0, 1, Len(q0) - 1) ELSE q0
        plugin_args == IF plugin THEN Split(q0[Len(q0)].arg[1], "/", <<>>) ELSE <<>>
        handler == IF plugin_args # <<>>
                   THEN [set |-> TRUE, fn |-> plugin_args[1], args |-> Tail(plugin_args)]
                   ELSE NoHandler
        colls1 == SplitCollections(colls, <<>>)
        from == Len(q1) > 1 /\ q1[1].op = "str" /\ StartsWith(q1[1].arg[1], From)
        colls2 == IF from
                  THEN <<SubSeq(q1[1].arg[1], 5, Len(q1[1].arg[1]))>>
                  ELSE colls1
        q2 == IF from THEN Tail(q1) ELSE q1
        israw == Len(q2) > 1 /\ q2[Len(q2)].op = "$raw"
    IN  [compiled |-> q0,
         query |-> IF israw THEN SubSeq(q2, 1, Len(q2) - 1) ELSE q2,
         raw |-> IF israw THEN q2[Len(q2)].arg[1] ELSE raw,
         handler |-> handler,
         mongocollections |-> colls2]

\* DBQuery(...) called directly, or by DBQueryDataSource.Implementation,
\* which passes no pmanager
Construct ==
    /\ pphase = "new"
    /\ LET o == DBQueryInit(pin.text, pin.stages, pin.lims, pin.colls, pin.raw,
                            pin.pm /\ pin.via = "direct")
       IN  /\ compiled' = o.compiled
           /\ pquery' = o.query
           /\ praw' = o.raw
           /\ phandler' = o.handler
           /\ pcolls' = o.mongocollections
    /\ pphase' = "built"
    /\ UNCHANGED <<pin, pout>>
    /\ UNCHANGED <<qvars, tvars, fetched, vvars, dvars, xvars>>

\* DBQuery.fetch(): the stream of the handler called with the DBQuery and
\* the arguments, or fetch_all_rs aggregating the query; a handler entry
\* that is None cannot be subscripted
DBQueryFetch ==
    /\ pphase = "built"
    /\ pout' = IF phandler.set
               THEN IF phandler.fn \in Filters
                    THEN [src |-> "handler", fn |-> phandler.fn,
                          args |-> phandler.args, agg |-> <<>>]
                    ELSE [NoOutput EXCEPT !.src = "raised"]
               ELSE [NoOutput EXCEPT !.src = "store", !.agg = pquery]
    /\ pphase' = "fetched"
    /\ UNCHANGED <<pin, compiled, pquery, praw, phandler, pcolls>>
    /\ UNCHANGED <<qvars, tvars, fetched, vvars, dvars, xvars>>

\* the characters of the query strings
Chars == {"a", "B", " ", "?", "="}

\* the query strings of at most MaxText characters
Texts == UNION {[1 .. n -> Chars] : n \in 0 .. MaxText}

\* the stages an expression is parsed into: a string naming a collection,
\* a $match, a $group, the markers
GivenStages ==
    {St("str", <<From \o <<"c">>>>), St("$match", <<<<"m">>>>),
     St("$group", <<<<"g">>>>), St("$plugin", <<<<"p", "/", "a">>>>),
     St("$plugin", <<<<"u">>>>), St("$raw", <<<<"true">>>>)}

StageLists == UNION {[1 .. n -> GivenStages] : n \in 0 .. MaxQuery}

\* the filters given with the query: none, one that is empty, one
Lims == {<<>>, <<<<>>>>, <<<<"f">>>>}

\* the arguments of DBQuery(...): any query string with the plain arguments,
\* or an expression with any stages, filters, collections, raw flag and
\* plugin manager, directly or through DBQueryDataSource
PInit ==
    /\ \/ \E text \in Texts, lims \in Lims :
             \E stages \in IF judge_type(text)
                           THEN {<<St("plain", <<<<"e">>>>)>>, <<St("$group", <<<<"g">>>>)>>}
                           ELSE {<<>>} :
                pin = [text |-> text, stages |-> stages, lims |-> lims,
                       pm |-> FALSE, via |-> "direct", colls |-> <<>>,
                       raw |-> <<"false">>]
       \/ \E stages \in StageLists, lims \in Lims, pm \in BOOLEAN,
             via \in {"direct", "datasource"}, colls \in {<<>>, <<<<"d">>>>},
             raw \in {<<"false">>, <<"true">>} :
                pin = [text |-> <<"?">>, stages |-> stages, lims |-> lims,
                       pm |-> pm, via |-> via, colls |-> colls, raw |-> raw]
    /\ compiled = <<>>
    /\ pquery = <<>>
    /\ praw = <<"false">>
    /\ phandler = NoHandler
    /\ pcolls = <<>>
    /\ pphase = "new"
    /\ pout = NoOutput

PNext ==
    \/ Construct
    \/ DBQueryFetch

InitParse == QInit /\ TIdle /\ fetched = NoFetch /\ VIdle /\ DIdle /\ PInit /\ XIdle
SpecParse == InitParse /\ [][PNext]_vars

\* the DBQuery was constructed
Built == pphase \in {"built", "fetched"}

\* C11: compiling a query with extra filters ANDs them into the first stage
\* when the query compiled alone starts with a $match, leaving the number
\* of stages and every later stage as they are, and appends one $match
\* holding them otherwise.
C11_MergeFilters ==
    (Built /\ pin.lims # <<>> /\ pin.lims[1] # <<>>) =>
        LET base == parse(pin.text, pin.stages, <<>>)
            req == <<<<"$and">>, Parsed(pin.lims[1])>>
        IN  IF base # <<>> /\ base[1].op = "$match"
            THEN /\ Len(compiled) = Len(base)
                 /\ Tail(compiled) = Tail(base)
                 /\ compiled[1] = St("$match", And(base[1].arg, req))
            ELSE /\ Len(compiled) = Len(base) + 1
                 /\ SubSeq(compiled, 1, Len(base)) = base
                 /\ compiled[Len(compiled)] = St("$match", req)

\* C11 witness: a $match and a $group compiled with one filter
C11_Witness ==
    /\ Built
    /\ pin.stages = <<St("$match", <<<<"m">>>>), St("$group", <<<<"g">>>>)>>
    /\ pin.lims = <<<<"f">>>>
    /\ Len(compiled) = 2
    /\ compiled[1].op = "$match"
    /\ compiled[1].arg # <<<<"m">>>>
    /\ compiled[2] = St("$group", <<<<"g">>>>)

\* the characters of text that are no blank
NoBlanks(text) == SelectSeq(text, LAMBDA c : c # " ")

RECURSIVE Flatten(_)
\* the strings of a list, joined
Flatten(list) == IF list = <<>> THEN <<>> ELSE Head(list) \o Flatten(Tail(list))

\* the number of runs of characters that are no blank
Runs(text) ==
    Cardinality({i \in 1 .. Len(text) :
                    text[i] # " " /\ (i = 1 \/ text[i - 1] = " ")})

C18_PluginMarker ==
    (/\ pphase = "fetched" /\ pin.pm /\ compiled # <<>>
     /\ compiled[Len(compiled)].op = "$plugin"
     /\ Split(compiled[Len(compiled)].arg[1], "/", <<>>)[1] \in Filters) =>
        LET segments == Split(compiled[Len(compiled)].arg[1], "/", <<>>)
        IN  /\ Len(pquery) < Len(compiled)
            /\ pquery = SubSeq(compiled, 1, Len(pquery))
            /\ pout = [src |-> "handler", fn |-> segments[1],
                       args |-> Tail(segments), agg |-> <<>>]

\* C19: a query that begins with the string stage 'from' + name gives the
\* DBQuery the collection list [name] and a query without that stage.
C19_FromOverrides ==
    (/\ Built /\ judge_type(pin.text) /\ pin.stages # <<>>
     /\ pin.stages[1].op = "str"
     /\ StartsWith(pin.stages[1].arg[1], From)) =>
        /\ pcolls = <<SubSeq(pin.stages[1].arg[1], 5, Len(pin.stages[1].arg[1]))>>
        /\ \A i \in 1 .. Len(pquery) :
              pquery[i] \notin {pin.stages[1], Wrap(pin.stages[1])}

\* C20: when the compiled query ends with the $raw marker, the raw flag of
\* the DBQuery is the value of the marker and the query is the compiled
\* one without the marker, whatever the length of the query.
C20_RawMarker ==
    (Built /\ compiled # <<>> /\ compiled[Len(compiled)].op = "$raw") =>
        /\ praw = compiled[Len(compiled)].arg[1]
        /\ pquery = SubSeq(compiled, 1, Len(compiled) - 1)

(***********************************************************************)
(* Grouping: the stages DBQuery.__init__ appends for groups /= 'none'  *)
(* and the documents they give                                         *)
(***********************************************************************)

\* A sort string and a field path are sequences of lexemes: a name, or
\* one of the characters '-', ',' and '.'. Every other string is the
\* sequence of its characters. Absent stands for a missing field or null.
Absent == <<>>

MaxGrouped == 2

\* one stage of the appended fragment: its operator, the field it sets or
\* groups by, the expression it sets it to and the accumulator it projects
GSt(op, field, expr, sorting) ==
    [op |-> op, field |-> field, expr |-> expr, sorting |-> sorting]

\* sort = 'group_id,-pdate' / 'source' / '-group_id' when no sort is given
DefaultGroupSort(groups) ==
    IF groups = <<"group">> THEN <<"group_id", ",", "-", "pdate">>
    ELSE IF groups = <<"source">> THEN <<"source">>
    ELSE <<"-", "group_id">>

\* the first stages of the fragment, which give every document a group_id
GroupIdStages(groups) ==
    IF groups = <<"group">>
    THEN << GSt("addFields", "group_id", <<"filter">>, NoSorting),
            GSt("unwind", "group_id", <<"preserveNullAndEmptyArrays">>, NoSorting),
            GSt("addFields", "group_id", <<"ifNull", "group_id", "id=">>, NoSorting) >>
    ELSE IF groups = <<"source">>
    THEN << GSt("addFields", "group_id", <<"ifNull", "url", "file">>, NoSorting) >>
    ELSE << GSt("addFields", "group_id", <<"$">> \o groups, NoSorting) >>

\* '.' in sort, ',' in sort
Contains(sort, c) == \E i \in 1 .. Len(sort) : sort[i] = c

\* sorting.replace('($id)', '($_id)')
ReplaceId(field) == IF field = <<"id">> THEN <<"_id">> ELSE field

\* swaps the two accumulators
SortingFieldSwapped(sort) ==
    IF ~Contains(sort, ".") /\ ~Contains(sort, ",")
    THEN IF sort # <<>> /\ Head(sort) = "-"
         THEN [fn |-> "min", field |-> ReplaceId(Tail(sort))]
         ELSE [fn |-> "max", field |-> ReplaceId(sort)]
    ELSE NoSorting

\* sorting: the accumulator projected as sorting_field, if any
SortingField(sort) ==
    IF ~Contains(sort, ".") /\ ~Contains(sort, ",")
    THEN IF sort # <<>> /\ Head(sort) = "-"
         THEN [fn |-> "max", field |-> ReplaceId(Tail(sort))]
         ELSE [fn |-> "min", field |-> ReplaceId(sort)]
    ELSE NoSorting

\* sort = ('-' if sort.startswith('-') else '') + 'sorting_field'
SortOnSortingField(sort) ==
    IF ~Contains(sort, ".") /\ ~Contains(sort, ",")
    THEN (IF sort # <<>> /\ Head(sort) = "-" THEN <<"-">> ELSE <<>>)
         \o <<"sorting_field">>
    ELSE sort

\* the grouping part of DBQuery.__init__: the stages appended to the
\* query and DBQuery.sort
Grouping(groups, sort0) ==
    LET sort1 == IF sort0 = <<"id">> THEN <<>> ELSE sort0
        sort2 == IF groups # <<"none">> /\ sort1 = <<>>
                 THEN DefaultGroupSort(groups) ELSE sort1
        sort3 == IF groups # <<"none">> THEN SortOnSortingField(sort2)
                 ELSE sort2
    IN  [query |-> IF groups = <<"none">> THEN <<>>
                   ELSE GroupIdStages(groups) \o
                        << GSt("addFields", "gid", <<"ifNull", "group_id", "id=">>, NoSorting),
                           GSt("groupby", "gid", <<>>, SortingField(sort2)),
                           GSt("groupby", "_id", <<>>, NoSorting),
                           GSt("addFields", "group_id", <<"$", "gid">>, NoSorting) >>,
         sort  |-> IF sort3 = <<>> THEN <<"id">> ELSE sort3]

GConstruct ==
    /\ gphase = "new"
    /\ gquery' = Grouping(gin.groups, gin.sort).query
    /\ gsort' = Grouping(gin.groups, gin.sort).sort
    /\ gphase' = "built"
    /\ UNCHANGED <<gin, gstore, gout>>
    /\ UNCHANGED <<qvars, tvars, fetched, vvars, dvars, pvars, fvars, ovars, svars, yvars>>

RECURSIVE toString(_)
\* toString($_id): the decimal digits of an identifier
toString(n) ==
    LET digit == <<"0", "1", "2", "3", "4", "5", "6", "7", "8", "9">>
    IN  IF n < 10 THEN <<digit[n + 1]>>
        ELSE toString(n \div 10) \o <<digit[(n % 10) + 1]>>

\* a stored record as the document that enters the fragment
Doc(r) == [_id |-> r.id, keywords |-> r.keywords, url |-> r.url,
           file |-> r.file, author |-> r.author,
           group_id |-> Absent, gid |-> Absent, unwound |-> <<>>,
           sorting_field |-> NoSorting]

\* filter(input=$keywords, as=t, cond=eq(substrCP($$t;0;1);"*"))
Starred(keywords) == SelectSeq(keywords, LAMBDA t : t # <<>> /\ t[1] = "*")

RECURSIVE UnwindDropping(_)
\* an unwind that drops the documents whose array is empty
UnwindDropping(docs) ==
    IF docs = <<>> THEN <<>>
    ELSE LET d == Head(docs)
         IN  [i \in 1 .. Len(d.unwound) |-> [d EXCEPT !.group_id = d.unwound[i]]]
             \o UnwindDropping(Tail(docs))

RECURSIVE Unwind(_)
\* unwind(path=$group_id, preserveNullAndEmptyArrays=true): one document
\* for each element, and the document itself, without the field, when the
\* array is empty
Unwind(docs) ==
    IF docs = <<>> THEN <<>>
    ELSE LET d == Head(docs)
         IN  (IF d.unwound = <<>> THEN <<[d EXCEPT !.group_id = Absent]>>
              ELSE [i \in 1 .. Len(d.unwound) |->
                        [d EXCEPT !.group_id = d.unwound[i]]])
             \o Unwind(Tail(docs))

\* ifNull($group_id; ifNull(concat('id='; toString($_id)); $source.file))
IfNullId(d) ==
    IF d.group_id # Absent THEN d.group_id
    ELSE <<"i", "d", "=">> \o toString(d._id)

\* the key a groupby stage groups by
GroupKey(d, field) == IF field = "_id" THEN toString(d._id) ELSE d.gid

RECURSIVE GroupKeys(_, _, _)
\* the keys of the groups among the first n documents, in the order they
\* first occur
GroupKeys(docs, field, n) ==
    IF n = 0 THEN <<>>
    ELSE LET rest == GroupKeys(docs, field, n - 1)
             k == GroupKey(docs[n], field)
         IN  IF \E i \in 1 .. Len(rest) : rest[i] = k THEN rest
             ELSE Append(rest, k)

\* groupby: group(orig=first($$ROOT), ...) and replaceRoot(mergeObjects(
\* $orig, ...)): one document for each key, the first of its group, with
\* the accumulator of the stage; order is the order the groups come out in
GroupBy(docs, st, order) ==
    LET keys == GroupKeys(docs, st.field, Len(docs))
        first(k) == SelectSeq(docs, LAMBDA d : GroupKey(d, st.field) = k)[1]
    IN  [i \in 1 .. Len(keys) |->
            IF st.sorting = NoSorting THEN first(keys[order[i]])
            ELSE [first(keys[order[i]]) EXCEPT !.sorting_field = st.sorting]]

\* one addFields or unwind stage over the documents
Project(docs, st) ==
    IF st.op = "unwind" THEN Unwind(docs)
    ELSE [i \in 1 .. Len(docs) |->
            LET d == docs[i]
            IN  IF st.expr = <<"filter">>
                THEN [d EXCEPT !.unwound = Starred(d.keywords)]
                ELSE IF st.expr = <<"ifNull", "group_id", "id=">>
                THEN IF st.field = "gid" THEN [d EXCEPT !.gid = IfNullId(d)]
                     ELSE [d EXCEPT !.group_id = IfNullId(d)]
                ELSE IF st.expr = <<"ifNull", "url", "file">>
                THEN [d EXCEPT !.group_id =
                          IF d.url # Absent THEN d.url ELSE d.file]
                ELSE IF st.expr = <<"$", "gid">>
                THEN [d EXCEPT !.group_id = d.gid]
                ELSE [d EXCEPT !.group_id = d.author]]

\* the orders a group stage may give its groups in
Orders(n) == {o \in [1 .. n -> 1 .. n] : \A i, j \in 1 .. n : o[i] = o[j] => i = j}

RECURSIVE Results(_, _)
\* the results the stages may give over the documents: a group stage
\* gives its groups in an order of its own
Results(docs, stages) ==
    IF stages = <<>> THEN {docs}
    ELSE LET st == Head(stages)
         IN  IF st.op = "groupby"
             THEN UNION { Results(GroupBy(docs, st, o), Tail(stages)) :
                            o \in Orders(Len(GroupKeys(docs, st.field, Len(docs)))) }
             ELSE Results(Project(docs, st), Tail(stages))

\* rs.aggregate(self.query) over the matching records
GAggregate ==
    /\ gphase = "built"
    /\ \E res \in Results([i \in 1 .. Len(gstore) |-> Doc(gstore[i])], gquery) :
           gout' = {res[i] : i \in 1 .. Len(res)}
    /\ gphase' = "fetched"
    /\ UNCHANGED <<gin, gstore, gsort, gquery>>
    /\ UNCHANGED <<qvars, tvars, fetched, vvars, dvars, pvars, fvars, ovars, svars, yvars>>

\* the keyword lists a record is given: none, a plain keyword, one '*'
\* keyword, two in either order, a plain keyword before a '*' keyword
KeywordLists ==
    { <<>>, <<<<"k">>>>, <<<<"*", "a">>>>, <<<<"*", "b">>, <<"*", "a">>>>,
      <<<<"*", "a">>, <<"*", "b">>>>, <<<<"k">>, <<"*", "b">>>> }

GroupModes == {<<"none">>, <<"group">>, <<"source">>, <<"author">>}

GivenSorts == {<<>>, <<"id">>, <<"-", "id">>, <<"pdate">>, <<"-", "pdate">>,
               <<"source", ".", "url">>}

GInit ==
    /\ \E n \in 0 .. MaxGrouped :
       \E kws \in [1 .. n -> KeywordLists] :
       \E urls \in [1 .. n -> {Absent, <<"u">>}] :
           gstore = [i \in 1 .. n |->
                        [id |-> i, keywords |-> kws[i], url |-> urls[i],
                         file |-> <<"f">>, author |-> <<"w">>]]
    /\ \E g \in GroupModes, s \in GivenSorts : gin = [groups |-> g, sort |-> s]
    /\ gsort = <<>>
    /\ gquery = <<>>
    /\ gout = {}
    /\ gphase = "new"

GNext ==
    \/ GConstruct
    \/ GAggregate

InitGroup == QInit /\ TIdle /\ fetched = NoFetch /\ VIdle /\ DIdle /\ PIdle /\ GInit /\ FIdle /\ OIdle /\ SIdle /\ YIdle
SpecGroup == InitGroup /\ [][GNext]_vars

\* C21: under grouping mode 'group', when no matching record has a
\* keyword starting with '*', the grouped result has exactly one group for
\* each record and the key of that group is 'id=' followed by the
\* record's own identifier.
C21_OneGroupPerRecord ==
    (/\ gphase = "fetched"
     /\ gin.groups = <<"group">>
     /\ \A i \in 1 .. Len(gstore) : Starred(gstore[i].keywords) = <<>>)
    => /\ Cardinality(gout) = Len(gstore)
       /\ \A i \in 1 .. Len(gstore) :
              \E d \in gout :
                  /\ d._id = gstore[i].id
                  /\ d.group_id = <<"i", "d", "=">> \o toString(gstore[i].id)
       /\ \A d \in gout :
              \E i \in 1 .. Len(gstore) :
                  d.group_id = <<"i", "d", "=">> \o toString(gstore[i].id)

\* two records without a '*' keyword, one of them with keywords, grouped
C21_Witness ==
    /\ gphase = "fetched"
    /\ gin.groups = <<"group">>
    /\ Len(gstore) = 2
    /\ gstore[1].keywords = <<<<"k">>>>
    /\ gstore[2].keywords = <<>>
    /\ Cardinality(gout) = 2

\* C22: under grouping mode 'group', a record with one or more keywords
\* starting with '*' is in exactly one group, and the key of that group is
\* the smallest of the record's '*' keywords. (Every '*' keyword here is
\* '*' and one letter, so the smallest is the one of the smallest letter.)
C22_SmallestStarKey ==
    (gphase = "fetched" /\ gin.groups = <<"group">>)
    => \A i \in 1 .. Len(gstore) :
           LET stars == Starred(gstore[i].keywords)
               rank == [c \in {"a", "b"} |-> IF c = "a" THEN 1 ELSE 2]
               smallest == CHOOSE s \in {stars[j] : j \in 1 .. Len(stars)} :
                               \A j \in 1 .. Len(stars) :
                                   rank[s[2]] <= rank[stars[j][2]]
           IN  stars # <<>>
               => Cardinality({d \in gout : d._id = gstore[i].id}) = 1
                  /\ \A d \in gout :
                         d._id = gstore[i].id => d.group_id = smallest

\* C23 as stated: for every grouping mode other than 'none', when no sort
\* is given, the appended stages project sorting_field (min of the sort
\* field when ascending, max when descending) and DBQuery.sort is on
\* sorting_field.
C23_SortingFieldEveryMode ==
    (gphase = "built" /\ gin.groups # <<"none">> /\ gin.sort = <<>>)
    => /\ \E i \in 1 .. Len(gquery) :
              /\ gquery[i].op = "groupby"
              /\ gquery[i].sorting.fn \in {"min", "max"}
       /\ gsort \in {<<"sorting_field">>, <<"-", "sorting_field">>}

\* C23, amended: when no sort is given, mode 'source' projects
\* sorting_field = min($source) and sorts on sorting_field, a field path
\* projects sorting_field = max($group_id) and sorts on -sorting_field,
\* and mode 'group' projects no sorting_field and sorts on
\* 'group_id,-pdate'.
C23_SortingFieldSimpleSort ==
    (gphase = "built" /\ gin.groups # <<"none">> /\ gin.sort = <<>>)
    => LET projected == {gquery[i].sorting : i \in 1 .. Len(gquery)}
                            \ {NoSorting}
       IN  IF gin.groups = <<"group">>
           THEN /\ projected = {}
                /\ gsort = <<"group_id", ",", "-", "pdate">>
           ELSE IF gin.groups = <<"source">>
           THEN /\ projected = {[fn |-> "min", field |-> <<"source">>]}
                /\ gsort = <<"sorting_field">>
           ELSE /\ projected = {[fn |-> "max", field |-> <<"group_id">>]}
                /\ gsort = <<"-", "sorting_field">>

\* a query grouped by source, built without a sort
C23_Witness ==
    /\ gphase = "built"
    /\ gin = [groups |-> <<"source">>, sort |-> <<>>]
    /\ gsort = <<"sorting_field">>

(***********************************************************************)
(* Flow control (plugins/pipelines/controls.py): RepeatWhile,          *)
(* Condition and CallTask in a pipeline, and the records run through   *)
(* it. Pipeline, PipelineStage and the executor of Task are not part   *)
(* of the sources at hand: a pipeline instantiates its stages and      *)
(* links each to the following one, a stage without flow control       *)
(* yields its record with its next, and the executor hands every       *)
(* record to the destination it was yielded with, several records at   *)
(* a time.                                                             *)
(***********************************************************************)

MaxInFlight == 2
MaxTimes == 2

\* a condition: a test of the counter field against a number, or of a
\* field of the record
Cond(given, field, below) == [given |-> given, field |-> field, below |-> below]

NoCond == Cond(FALSE, "none", 0)

\* the specification of a stage: its name and its arguments
StageSpec(kind, times, cond, only, subs) ==
    [kind |-> kind, times |-> times, cond |-> cond, only |-> only,
     subs |-> subs]

PlainSpec == StageSpec("plain", 0, NoCond, FALSE, <<>>)

RECURSIVE SetNext(_, _, _)
\* stage.next = val: for a flow-control stage the setter also sets the
\* next of the last stage of each of its non-empty pipelines
SetNext(g, n, val) ==
    LET g1 == [g EXCEPT ![n].next = val]
        RECURSIVE Over(_, _)
        Over(i, gg) ==
            IF i > Len(g[n].pipes) THEN gg
            ELSE LET stages == g[n].pipes[i]
                 IN  Over(i + 1, IF stages # <<>>
                                 THEN SetNext(gg, stages[Len(stages)], val)
                                 ELSE gg)
    IN  IF g[n].kind = "plain" THEN g1 ELSE Over(1, g1)

RECURSIVE Link(_, _, _)
\* the default links of a pipeline: stage i.next = stage i+1, the last
\* stage's next is none
Link(g, stages, i) ==
    IF i > Len(stages) THEN g
    ELSE Link(SetNext(g, stages[i],
                      IF i < Len(stages) THEN stages[i + 1] ELSE 0),
              stages, i + 1)

\* the default condition as 'counter <= times'
CondOfInclusive(spec) ==
    IF spec.kind = "RepeatWhile" /\ ~spec.cond.given
    THEN Cond(FALSE, "counter", spec.times + 1)
    ELSE spec.cond

\* parser.eval(cond if cond else f'{self.times_key} < {times}')
CondOf(spec) ==
    IF spec.kind = "RepeatWhile" /\ ~spec.cond.given
    THEN Cond(FALSE, "counter", spec.times)
    ELSE spec.cond

RECURSIVE BuildPipeline(_, _), BuildStage(_, _)
\* Pipeline(stages): the stages instantiated in order, then linked; gives
\* the stages built so far and Pipeline.stages
BuildPipeline(specs, g) ==
    LET RECURSIVE Inst(_, _, _)
        Inst(i, gg, ids) ==
            IF i > Len(specs) THEN [g |-> gg, stages |-> ids]
            ELSE LET b == BuildStage(specs[i], gg)
                 IN  Inst(i + 1, b.g, Append(ids, b.id))
        built == Inst(1, g, <<>>)
    IN  [g |-> Link(built.g, built.stages, 1), stages |-> built.stages]

\* __init__ of a stage: its pipelines are built first, then
\* FlowControlStage.__init__ sets _next = None and collects in _pipelines
\* the attributes that are pipelines. CallTask keeps its pipeline in
\* self.task and has it as an attribute only with pipeline_only.
BuildStage(spec, g) ==
    LET RECURSIVE Subs(_, _, _)
        Subs(i, gg, acc) ==
            IF i > Len(spec.subs) THEN [g |-> gg, pipes |-> acc]
            ELSE LET b == BuildPipeline(spec.subs[i], gg)
                 IN  Subs(i + 1, b.g, Append(acc, b.stages))
        sub == Subs(1, g, <<>>)
        node == [kind |-> spec.kind, next |-> 0,
                 pipes |-> IF spec.kind = "CallTask" /\ ~spec.only
                           THEN <<>> ELSE sub.pipes,
                 task |-> IF spec.kind = "CallTask" THEN sub.pipes[1]
                          ELSE <<>>,
                 times |-> spec.times, cond |-> CondOf(spec),
                 only |-> spec.only]
    IN  [g |-> Append(sub.g, node), id |-> Len(sub.g) + 1]

RECURSIVE Stages(_, _)
\* the stages of the graph: those of the pipeline and, for each of its
\* flow-control stages, those of the pipelines it holds
Stages(g, stages) ==
    {stages[i] : i \in 1 .. Len(stages)} \cup
    UNION { UNION { Stages(g, g[stages[i]].pipes[j]) :
                       j \in 1 .. Len(g[stages[i]].pipes) } :
            i \in 1 .. Len(stages) }

\* paragraph[self.times_key] = None
Cleared == None

\* the counter read after the increment
CounterSeenAfter(c) == (IF c = None THEN 0 ELSE c) + 1

\* lines 59-62: an absent counter is set to 0; the condition is evaluated
\* against the counter as it is then
CounterSeen(c) == IF c = None THEN 0 ELSE c

\* execute_query_expr(cond, paragraph)
Eval(cond, counter, field) ==
    IF cond.field = "counter" THEN counter < cond.below ELSE field

\* the pipelines taken the other way round
ChosenSwapped(node, flag) == IF flag THEN 2 ELSE 1

\* Condition.flow: pipeline = self.iftrue, self.iffalse if the condition
\* does not hold
Chosen(node, flag) == IF flag THEN 1 ELSE 2

\* routes into the pipeline of the task whatever pipeline_only is
CallTaskDestAlways(node) ==
    IF node.task # <<>> THEN node.task[1] ELSE node.next

\* CallTask.flow
CallTaskDest(node) ==
    IF node.only /\ node.pipes[1] # <<>> THEN node.pipes[1][1] ELSE node.next

\* what one call of flow() does: the graph and the counter after it, the
\* destination it yields, and what the condition saw
StageFlow(g, n, c, field) ==
    LET node == g[n]
        quiet == [g |-> g, c |-> c, dest |-> node.next, into |-> FALSE,
                  branch |-> 0, evals |-> 0, seen |-> None]
    IN  IF node.kind = "RepeatWhile"
        THEN LET flag == Eval(node.cond, CounterSeen(c), field)
                 stages == node.pipes[1]
             IN  IF flag /\ stages # <<>>
                 THEN [quiet EXCEPT
                          !.g = SetNext(g, stages[Len(stages)], n),
                          !.c = (IF c = None THEN 0 ELSE c) + 1,
                          !.dest = stages[1], !.into = TRUE,
                          !.evals = 1, !.seen = CounterSeen(c)]
                 ELSE [quiet EXCEPT !.c = Cleared, !.evals = 1,
                                    !.seen = CounterSeen(c)]
        ELSE IF node.kind = "Condition"
        THEN LET flag == Eval(node.cond, 0, field)
                 stages == node.pipes[Chosen(node, flag)]
             IN  IF stages # <<>>
                 THEN [quiet EXCEPT !.dest = stages[1], !.into = TRUE,
                                    !.branch = Chosen(node, flag),
                                    !.evals = 1]
                 ELSE [quiet EXCEPT !.branch = Chosen(node, flag),
                                    !.evals = 1]
        ELSE IF node.kind = "CallTask"
        THEN [quiet EXCEPT !.dest = CallTaskDest(node),
                           !.into = (CallTaskDest(node) # node.next)]
        ELSE quiet

\* the executor hands record r to the stage it is at
Flow(r) ==
    /\ fphase = "run"
    /\ at[r] # 0
    /\ LET n == at[r]
           f == StageFlow(graph, n, cnt[r][n], fields[r])
       IN  /\ graph' = f.g
           /\ cnt' = [cnt EXCEPT ![r][n] = f.c]
           /\ at' = [at EXCEPT ![r] = f.dest]
           /\ step' = [stage |-> n, rec |-> r, dest |-> f.dest, pairs |-> 1,
                       into |-> f.into, branch |-> f.branch,
                       evals |-> f.evals, seen |-> f.seen,
                       visit |-> routed[r][n] + 1, passes |-> routed[r][n]]
           /\ routed' = [routed EXCEPT ![r][n] =
                            IF graph[n].kind = "plain" THEN 0
                            ELSE IF f.into THEN @ + 1 ELSE 0]
    /\ UNCHANGED <<top, fields, texec, fsum, fphase>>
    /\ UNCHANGED <<qvars, tvars, fetched, vvars, dvars, pvars, gvars, ovars, svars, yvars>>

\* summarizes every CallTask although pipeline_only is set
ExecutesAlways(node) == node.kind = "CallTask"

\* CallTask.summarize: self.task.execute() unless pipeline_only
Executes(node) == node.kind = "CallTask" /\ ~node.only

\* finalization, once every record is at the terminal: summarize() of
\* the stages of the graph
Summarize ==
    /\ fphase = "run"
    /\ \A r \in 1 .. Len(at) : at[r] = 0
    /\ texec' = [n \in 1 .. Len(graph) |->
                    IF n \in Stages(graph, top) /\ Executes(graph[n])
                    THEN texec[n] + 1 ELSE texec[n]]
    /\ fsum' = [n \in 1 .. Len(graph) |->
                    IF n \notin Stages(graph, top) \/ graph[n].kind # "CallTask"
                    THEN "none"
                    ELSE IF Executes(graph[n]) THEN "task.execute()"
                    ELSE "pipeline.summarize()"]
    /\ fphase' = "done"
    /\ UNCHANGED <<graph, top, at, cnt, fields, step, routed>>
    /\ UNCHANGED <<qvars, tvars, fetched, vvars, dvars, pvars, gvars, ovars, svars, yvars>>

RepeatSpec(times, pipeline) ==
    StageSpec("RepeatWhile", times, NoCond, FALSE, <<pipeline>>)

RepeatCondSpec(cond, pipeline) ==
    StageSpec("RepeatWhile", 1, cond, FALSE, <<pipeline>>)

BranchSpec(iftrue, iffalse) ==
    StageSpec("Condition", 0, Cond(TRUE, "field", 0), FALSE,
              <<iftrue, iffalse>>)

CallSpec(only, pipeline) ==
    StageSpec("CallTask", 0, NoCond, only, <<pipeline>>)

\* the pipelines that are built and run
PipelineSpecs ==
    { <<RepeatSpec(t, <<PlainSpec>>), PlainSpec>> : t \in 0 .. MaxTimes } \cup
    { <<RepeatSpec(t, <<>>)>> : t \in 0 .. MaxTimes } \cup
    { <<RepeatCondSpec(Cond(TRUE, "counter", k), <<PlainSpec, PlainSpec>>)>> :
          k \in 1 .. MaxTimes } \cup
    { <<RepeatSpec(t, <<RepeatSpec(1, <<PlainSpec>>)>>)>> :
          t \in 1 .. MaxTimes } \cup
    { <<RepeatSpec(t, <<BranchSpec(<<PlainSpec>>, <<>>)>>), PlainSpec>> :
          t \in 1 .. MaxTimes } \cup
    { <<BranchSpec(<<PlainSpec>>, <<PlainSpec, PlainSpec>>), PlainSpec>>,
      <<BranchSpec(<<>>, <<PlainSpec>>)>>,
      <<BranchSpec(<<RepeatSpec(1, <<PlainSpec>>)>>,
                   <<CallSpec(TRUE, <<PlainSpec>>)>>), PlainSpec>>,
      <<CallSpec(TRUE, <<PlainSpec, PlainSpec>>), PlainSpec>>,
      <<CallSpec(TRUE, <<>>), PlainSpec>>,
      <<CallSpec(FALSE, <<PlainSpec>>), PlainSpec>>,
      <<PlainSpec, CallSpec(FALSE, <<PlainSpec>>)>>,
      <<CallSpec(TRUE, <<BranchSpec(<<PlainSpec>>, <<>>)>>)>> }

FlowInit ==
    /\ \E specs \in PipelineSpecs :
           LET built == BuildPipeline(specs, <<>>)
           IN  /\ graph = built.g
               /\ top = built.stages
    /\ \E k \in 1 .. MaxInFlight :
           /\ at = [r \in 1 .. k |-> top[1]]
           /\ cnt = [r \in 1 .. k |-> [n \in 1 .. Len(graph) |-> None]]
           /\ routed = [r \in 1 .. k |-> [n \in 1 .. Len(graph) |-> 0]]
           /\ fields = [r \in 1 .. k |-> r % 2 = 1]
    /\ step = NoStep
    /\ texec = [n \in 1 .. Len(graph) |-> 0]
    /\ fsum = [n \in 1 .. Len(graph) |-> "none"]
    /\ fphase = "run"

FNextFlow ==
    \/ \E r \in 1 .. Len(at) : Flow(r)
    \/ Summarize

InitFlow == QInit /\ TIdle /\ fetched = NoFetch /\ VIdle /\ DIdle /\ PIdle /\ GIdle /\ FlowInit /\ OIdle /\ SIdle /\ YIdle
SpecFlow == InitFlow /\ [][FNextFlow]_vars

C25_CounterCountsThisVisit ==
    (step.stage # 0 /\ graph[step.stage].kind = "RepeatWhile")
    => step.seen = step.visit

\* C25, amended: on each visit RepeatWhile evaluates the condition first
\* and increments the counter afterwards: the condition sees the number
\* of earlier visits (0 on the first visit).
C25_CounterCountsEarlierVisits ==
    (step.stage # 0 /\ graph[step.stage].kind = "RepeatWhile")
    => /\ step.evals = 1
       /\ step.seen = step.visit - 1
       /\ step.into => cnt[step.rec][step.stage] = step.visit

\* the second visit to a RepeatWhile with a condition of its own over the
\* counter
C25_Witness ==
    /\ step.stage # 0
    /\ graph[step.stage].kind = "RepeatWhile"
    /\ graph[step.stage].cond.given
    /\ step.visit = 2
    /\ step.seen = 1

\* C26: Condition evaluates its condition once for a record and yields
\* one pair: the first stage of iftrue when the condition holds, the
\* first stage of iffalse when not, its own next when the pipeline chosen
\* is empty; the last stage of either pipeline has the next of the
\* Condition, so a record leaving it goes on there.
C26_BranchOnce ==
    /\ (step.stage # 0 /\ graph[step.stage].kind = "Condition")
       => LET node == graph[step.stage]
              want == IF fields[step.rec] THEN node.pipes[1]
                      ELSE node.pipes[2]
          IN  /\ step.evals = 1
              /\ step.pairs = 1
              /\ step.dest = IF want # <<>> THEN want[1] ELSE node.next
    /\ \A n \in Stages(graph, top) :
           graph[n].kind = "Condition"
           => \A i \in 1 .. 2 :
                  LET stages == graph[n].pipes[i]
                  IN  stages # <<>>
                      => /\ graph[stages[Len(stages)]].next = graph[n].next
                         /\ (/\ step.stage = stages[Len(stages)]
                             /\ ~step.into)
                            => step.dest = graph[n].next

\* a record leaves the last stage of iffalse, which is not its first, and
\* goes on at the stage after the Condition
C26_Witness ==
    /\ step.stage # 0
    /\ \E n \in Stages(graph, top) :
           /\ graph[n].kind = "Condition"
           /\ Len(graph[n].pipes[2]) = 2
           /\ step.stage = graph[n].pipes[2][2]
           /\ ~fields[step.rec]
           /\ graph[n].next # 0
           /\ step.dest = graph[n].next

\* C27: with pipeline_only CallTask routes a record into the first stage
\* of the pipeline of the task (to its next if that pipeline is empty),
\* the last stage of that pipeline has the next of the CallTask, and the
\* task is never executed; without pipeline_only it routes the record to
\* its next and the task is executed once, at finalization, the result
\* being what summarize returns.
C27_CallTaskModes ==
    /\ (step.stage # 0 /\ graph[step.stage].kind = "CallTask")
       => LET node == graph[step.stage]
          IN  step.dest = IF node.only /\ node.task # <<>> THEN node.task[1]
                          ELSE node.next
    /\ \A n \in Stages(graph, top) :
           graph[n].kind = "CallTask"
           => IF graph[n].only
              THEN /\ texec[n] = 0
                   /\ fsum[n] # "task.execute()"
                   /\ graph[n].task # <<>>
                      => graph[graph[n].task[Len(graph[n].task)]].next
                             = graph[n].next
              ELSE /\ texec[n] = (IF fphase = "done" THEN 1 ELSE 0)
                   /\ fsum[n] = (IF fphase = "done" THEN "task.execute()"
                                 ELSE "none")

\* two records went past a CallTask without pipeline_only and the task
\* was executed at finalization
C27_Witness ==
    /\ fphase = "done"
    /\ Len(at) = 2
    /\ \E n \in Stages(graph, top) :
           /\ graph[n].kind = "CallTask"
           /\ ~graph[n].only
           /\ texec[n] = 1

\* C29: after building a pipeline and any sequence of flow() calls, the
\* next of every stage of the graph is a stage of the graph (the first
\* stage of a spliced pipeline included) or none, and so is every
\* destination yielded.
C29_GraphInvariant ==
    /\ \A n \in Stages(graph, top) :
           graph[n].next \in Stages(graph, top) \cup {0}
    /\ step.stage # 0 => step.dest \in Stages(graph, top) \cup {0}

\* a RepeatWhile that is the last stage of the pipeline of another has
\* been rewired to it, and its own last stage to itself
C29_Witness ==
    \E n, m \in Stages(graph, top) :
        /\ graph[n].kind = "RepeatWhile"
        /\ graph[m].kind = "RepeatWhile"
        /\ graph[n].pipes[1] = <<m>>
        /\ graph[m].next = n
        /\ graph[graph[m].pipes[1][1]].next = m
        /\ step.dest = n

(***********************************************************************)
(* CallTask.__init__: params overrides values of the job loaded        *)
(***********************************************************************)

MaxParams == 2

\* a key of params is the sequence of its lexemes: a name, a digit, or
\* the character '.'
Digits == <<"0", "1", "2", "3", "4", "5", "6", "7", "8", "9">>

\* str.isnumeric
isnumeric(sec) ==
    /\ sec # <<>>
    /\ \A i \in 1 .. Len(sec) : \E dgt \in 1 .. 10 : sec[i] = Digits[dgt]

RECURSIVE int(_)
\* int(sec) of a numeric string
int(sec) ==
    IF sec = <<>> THEN 0
    ELSE LET last == sec[Len(sec)]
         IN  int(SubSeq(sec, 1, Len(sec) - 1)) * 10
             + ((CHOOSE dgt \in 1 .. 10 : Digits[dgt] = last) - 1)

Raised == [ok |-> FALSE, val |-> VN(0)]
Returned(val) == [ok |-> TRUE, val |-> val]

\* isinstance(target, list) and len(target) == 2 and
\* isinstance(target[0], str) and isinstance(target[1], dict)
IsStage(target) ==
    /\ target.t = "list"
    /\ Len(target.items) = 2
    /\ target.items[1].t = "str"
    /\ target.items[2].t = "dict"

RECURSIVE SetPath(_, _, _)
\* the walk from target along the sections but the last and
\* target[last] = v: the value target is afterwards, unless an assert
\* fails or an index or an assignment raises
SetPath(target, secs, v) ==
    IF Len(secs) = 1
    THEN IF target.t = "dict"
         THEN Returned([target EXCEPT !.map = (secs[1] :> v) @@ @])
         ELSE Raised
    ELSE LET sec == secs[1]
         IN  IF isnumeric(sec)
             THEN IF target.t = "list" /\ Len(target.items) > int(sec)
                  THEN LET i == int(sec) + 1
                           el == target.items[i]
                       IN  IF el.t = "list" /\ Len(el.items) > 1
                           THEN LET r == SetPath(el.items[2], Tail(secs), v)
                                IN  IF r.ok
                                    THEN Returned([target EXCEPT
                                             !.items[i].items[2] = r.val])
                                    ELSE Raised
                           ELSE Raised
                  ELSE Raised
             ELSE IF target.t = "dict" /\ sec \in DOMAIN target.map
                  THEN LET inner == target.map[sec]
                       IN  IF IsStage(inner)
                           THEN LET r == SetPath(inner.items[2], Tail(secs), v)
                                IN  IF r.ok
                                    THEN Returned([target EXCEPT
                                             !.map[sec].items[2] = r.val])
                                    ELSE Raised
                           ELSE LET r == SetPath(inner, Tail(secs), v)
                                IN  IF r.ok
                                    THEN Returned([target EXCEPT
                                             !.map[sec] = r.val])
                                    ELSE Raised
                  ELSE Raised

\* one entry of params: secs = k.split('.'), target = t.pipeline, the walk
\* over secs[1:-1] and the assignment to secs[-1]
OverrideEntry(t, k, v) ==
    LET secs == Split(k, ".", <<>>)
        r == SetPath(t.pipeline, IF Len(secs) = 1 THEN secs ELSE Tail(secs), v)
    IN  IF r.ok THEN Returned([t EXCEPT !.pipeline = r.val]) ELSE Raised

RECURSIVE OverrideAll(_, _)
\* for k, v in params.items()
OverrideAll(t, params) ==
    IF params = <<>> THEN Returned(t)
    ELSE LET r == OverrideEntry(t, params[1].k, params[1].v)
         IN  IF r.ok THEN OverrideAll(r.val, Tail(params)) ELSE Raised

\* CallTask(task, pipeline_only, params)
CallTaskInit ==
    /\ ophase = "new"
    /\ LET r == OverrideAll(ojob, oparams)
       IN  IF r.ok
           THEN ores' = r.val /\ ophase' = "built"
           ELSE ores' = NoJob /\ ophase' = "failed"
    /\ UNCHANGED <<ojob, oparams>>
    /\ UNCHANGED <<qvars, tvars, fetched, vvars, dvars, pvars, gvars, fvars, svars, yvars>>

\* a stage of a job: [name, configuration]
StageOf(name, map) == VL(<<VS(name), VD(map)>>)

\* the job loaded: a data source configured with a query and a pipeline
\* of a RepeatWhile, holding two stages, and a stage
StoredJob ==
    [datasource_config |-> VD(<<"query">> :> VN(5)),
     pipeline |->
         VL(<< StageOf("RepeatWhile",
                       (<<"times">> :> VN(1)) @@
                       (<<"pipeline">> :>
                            VL(<< StageOf("A", <<"x">> :> VN(1)),
                                  StageOf("B", <<"y">> :> VN(2)) >>))),
               StageOf("A", <<"x">> :> VN(1)) >>)]

\* the keys of params
ParamKeys ==
    { <<"datasource_config", ".", "query">>,
      <<"pipeline", ".", "0", ".", "times">>,
      <<"pipeline", ".", "1", ".", "x">>,
      <<"pipeline", ".", "0", ".", "pipeline", ".", "1", ".", "y">>,
      <<"pipeline", ".", "5", ".", "x">>,
      <<"pipeline", ".", "0", ".", "nokey", ".", "0", ".", "x">>,
      <<"pipeline", ".", "1", ".", "z">>,
      <<"times">> }

OInit ==
    /\ ojob = StoredJob
    /\ \E n \in 0 .. MaxParams :
           oparams \in [1 .. n -> [k : ParamKeys, v : {VN(7), VN(8)}]]
    /\ ores = NoJob
    /\ ophase = "new"

ONext == CallTaskInit

InitOverride == QInit /\ TIdle /\ fetched = NoFetch /\ VIdle /\ DIdle /\ PIdle /\ GIdle /\ FIdle /\ OInit /\ SIdle /\ YIdle
SpecOverride == InitOverride /\ [][ONext]_vars

\* C28: an entry of params sets the value its path addresses, in the
\* configuration of the data source or of the stage at the given index
\* (stages of nested pipelines included), and leaves every other value as
\* it was; a path whose index or parameter does not exist makes the
\* construction fail.
C28_OverrideSetsAddressed ==
    (ophase \in {"built", "failed"} /\ Len(oparams) = 1)
    => LET k == oparams[1].k
           v == oparams[1].v
       IN  IF k = <<"datasource_config", ".", "query">>
           THEN /\ ophase = "built"
                /\ ores = [ojob EXCEPT !.datasource_config.map[<<"query">>] = v]
           ELSE IF k = <<"pipeline", ".", "0", ".", "times">>
           THEN /\ ophase = "built"
                /\ ores = [ojob EXCEPT
                              !.pipeline.items[1].items[2].map[<<"times">>] = v]
           ELSE IF k = <<"pipeline", ".", "1", ".", "x">>
           THEN /\ ophase = "built"
                /\ ores = [ojob EXCEPT
                              !.pipeline.items[2].items[2].map[<<"x">>] = v]
           ELSE IF k = <<"pipeline", ".", "0", ".", "pipeline", ".", "1", ".", "y">>
           THEN /\ ophase = "built"
                /\ ores = [ojob EXCEPT
                              !.pipeline.items[1].items[2].map[<<"pipeline">>]
                                  .items[2].items[2].map[<<"y">>] = v]
           ELSE IF k \in {<<"pipeline", ".", "5", ".", "x">>,
                          <<"pipeline", ".", "0", ".", "nokey", ".", "0", ".", "x">>}
           THEN ophase = "failed"
           ELSE TRUE

(***********************************************************************)
(* TasksQueue.status over run ids as enqueue_task writes them          *)
(***********************************************************************)

MaxName == 2
MaxRuns == 2
MaxStamp == 1

\* int(time.time()) at the enqueues: one digit and two
FirstStamp == 9
Stamps == FirstStamp .. FirstStamp + MaxStamp

\* the characters of a job name; an id has neither '/' nor '_'
NameChars == {"a", "_", "/"}
JobNames == UNION { [1 .. n -> NameChars] : n \in 0 .. MaxName }
JobIds == {<<"1">>, <<"2">>}

\* f'{t.id}/{t.name}_{int(time.time())}'
FormatRunId(id, name, now) == id \o <<"/">> \o name \o <<"_">> \o toString(now)

\* k.split('/', 1)[-1]
AfterFirstSlash(text) ==
    IF \E i \in 1 .. Len(text) : text[i] = "/"
    THEN LET i == CHOOSE i \in 1 .. Len(text) :
                      /\ text[i] = "/"
                      /\ \A j \in 1 .. i - 1 : text[j] # "/"
         IN  SubSeq(text, i + 1, Len(text))
    ELSE text

\* .split('_')[0]
NamePart(rest) == Split(rest, "_", <<>>)[1]

\* int(k.split('_')[-1])
StampPart(k) ==
    LET parts == Split(k, "_", <<>>) IN int(parts[Len(parts)])

\* one entry of 'finished'; last_run is the time handed to fromtimestamp
Finished(k) ==
    [id |-> k, name |-> NamePart(AfterFirstSlash(k)), last_run |-> StampPart(k)]

\* enqueue_task: tasks_queue.enqueue(run id, t)
SEnqueue(id, now) ==
    /\ sphase = "open"
    /\ Len(squeue) + Len(sresults) < MaxRuns
    /\ LET k == FormatRunId(id, sjobs[id], now)
       IN  /\ squeue' = Append(squeue, k)
           /\ senq' = (k :> [name |-> sjobs[id], now |-> now]) @@ senq
    /\ UNCHANGED <<sjobs, sresults, sstatus, sphase>>
    /\ UNCHANGED <<qvars, tvars, fetched, vvars, dvars, pvars, gvars, fvars, ovars, yvars>>

\* working: the first run id is taken and its result stored under it
SWork ==
    /\ sphase = "open"
    /\ squeue # <<>>
    /\ squeue' = Tail(squeue)
    /\ sresults' = IF \E i \in 1 .. Len(sresults) : sresults[i] = Head(squeue)
                   THEN sresults ELSE Append(sresults, Head(squeue))
    /\ UNCHANGED <<sjobs, senq, sstatus, sphase>>
    /\ UNCHANGED <<qvars, tvars, fetched, vvars, dvars, pvars, gvars, fvars, ovars, yvars>>

\* status
SStatus ==
    /\ sphase = "open"
    /\ sstatus' = [finished |-> [i \in 1 .. Len(sresults) |-> Finished(sresults[i])],
                   waiting |-> Len(squeue)]
    /\ sphase' = "listed"
    /\ UNCHANGED <<sjobs, squeue, sresults, senq>>
    /\ UNCHANGED <<qvars, tvars, fetched, vvars, dvars, pvars, gvars, fvars, ovars, yvars>>

SInit ==
    /\ sjobs \in [JobIds -> JobNames]
    /\ squeue = <<>>
    /\ sresults = <<>>
    /\ senq = <<>>
    /\ sstatus = NoStatus
    /\ sphase = "open"

SNext ==
    \/ \E id \in JobIds, now \in Stamps : SEnqueue(id, now)
    \/ SWork
    \/ SStatus

InitStatus == QInit /\ TIdle /\ fetched = NoFetch /\ VIdle /\ DIdle /\ PIdle /\ GIdle /\ FIdle /\ OIdle /\ SInit /\ YIdle
SpecStatus == InitStatus /\ [][SNext]_vars

\* C30: for every stored result the status listing has one finished
\* entry: its id is the run id, its name the name of the job enqueued and
\* its last run the time of the enqueue, whatever the name of the job,
\* names holding '_' or '/' included.
C30_StatusNamesRun ==
    sphase = "listed"
    => /\ Len(sstatus.finished) = Len(sresults)
       /\ \A i \in 1 .. Len(sresults) :
              /\ sstatus.finished[i].id = sresults[i]
              /\ sstatus.finished[i].name = senq[sresults[i]].name
              /\ sstatus.finished[i].last_run = senq[sresults[i]].now

(* ------------------------------------------------------------------ *)
(* Run ids of the submissions                                          *)
(* ------------------------------------------------------------------ *)
\* the submissions not yet finished: the waiting entries and the entries the
\* workers hold
Pending ==
    {q[i] : i \in 1 .. Len(q)} \cup {went[w] : w \in {v \in Workers : went[v] # NoEntry}}

\* C31: any two enqueue requests receive distinct run ids, two requests for
\* the same job within the same clock second included: no two submissions
\* that are waiting or held by a worker share a run id.
C31_RunIdsUnique ==
    \A a, b \in Pending : a.seq # b.seq => a.key # b.key

(* ------------------------------------------------------------------ *)
(* The compiled stage list across calls                                *)
(* ------------------------------------------------------------------ *)
\* C32: fetch_rs, fetch_all_rs, fetch and count leave the compiled stage
\* list of the DBQuery unchanged: whatever call runs, the query afterwards
\* is the query before, so no pipeline holds a sort, skip or limit stage of
\* another collection or of an earlier call.
C32_QueryUnchanged ==
    [][query' = query]_vars

(* ------------------------------------------------------------------ *)
(* A query compiled with an empty extra filter                         *)
(* ------------------------------------------------------------------ *)
\* C33: compiling a query together with an empty extra filter yields the
\* stage list of the query compiled alone, both when the query compiles to
\* stages and when it compiles to match-all.
C33_EmptyFilterIgnored ==
    (Built /\ pin.lims # <<>> /\ pin.lims[1] = <<>>) =>
        compiled = parse(pin.text, pin.stages, <<>>)

(* ------------------------------------------------------------------ *)
(* What a status request sees while the worker runs                    *)
(* ------------------------------------------------------------------ *)
\* the places TasksQueue.status shows run id k in: waiting, running, finished
Places(k) ==
    (IF Queued(q, k) THEN {"waiting"} ELSE {})
        \cup (IF running_task = k THEN {"running"} ELSE {})
        \cup (IF k \in DOMAIN results THEN {"finished"} ELSE {})

\* C34: in every state a status request can observe, each run id enqueued
\* and not cancelled is in exactly one of the waiting queue, the running id
\* and the stored results, and the running id is '' whenever no Task is
\* being constructed or executed.
C34_StatusPartition ==
    /\ \A e \in Pending : Cardinality(Places(e.key)) = 1
    /\ \A k \in DOMAIN results : Cardinality(Places(k)) = 1
    /\ (\A w \in Workers : wpc[w] \notin {"try", "execute"}) => running_task = NoTask

(* ------------------------------------------------------------------ *)
(* Tokens: authenticate and Token.check                                *)
(* ------------------------------------------------------------------ *)
\* tokens issued over a run, last value of the clock, and the life of a
\* token in ticks of the clock (86400 seconds in authenticate)
MaxTokens == 3
MaxNow == 3
MaxLife == 2

Users == 1 .. 2
TokenStrings == 1 .. MaxTokens

\* a Token document
Token(u, k, expire) == [user |-> u, token |-> k, expire |-> expire]

\* the entry of Token._cache for a Token
Cached(t) == [set |-> TRUE, user |-> t.user, expire |-> t.expire]

\* Token.first((F.token == k) & (F.expire > time.time())): the stored
\* documents it selects from
TokenFirst(k) == {t \in tokdb : t.token = k /\ t.expire > tnow}

\* time.time() moves on
TokTick ==
    /\ tnow < MaxNow
    /\ tnow' = tnow + 1
    /\ UNCHANGED <<tokdb, tcache, issued, tokresp>>
    /\ UNCHANGED nonk

\* POST /api/authenticate: with the right password the stored tokens of
\* the user are deleted and a new Token is saved and returned; a wrong
\* password raises
Authenticate(u, right) ==
    /\ Len(issued) < MaxTokens
    /\ IF right
       THEN /\ tokdb' = {t \in tokdb : t.user # u}
                            \cup {Token(u, Len(issued) + 1, tnow + MaxLife)}
            /\ issued' = Append(issued, u)
            /\ tokresp' = [op |-> "authenticate", token |-> Len(issued) + 1, ok |-> TRUE]
       ELSE /\ tokresp' = [op |-> "authenticate", token |-> 0, ok |-> FALSE]
            /\ UNCHANGED <<tokdb, issued>>
    /\ UNCHANGED <<tcache, tnow>>
    /\ UNCHANGED nonk

\* Token.check(k): the cached Token while it has not expired, else the
\* stored Token that has not expired, which is cached; None otherwise
TokenCheck(k) ==
    /\ IF tcache[k].set /\ tcache[k].expire > tnow
       THEN /\ tokresp' = [op |-> "check", token |-> k, ok |-> TRUE]
            /\ UNCHANGED tcache
       ELSE IF TokenFirst(k) # {}
       THEN /\ \E t \in TokenFirst(k) : tcache' = [tcache EXCEPT ![k] = Cached(t)]
            /\ tokresp' = [op |-> "check", token |-> k, ok |-> TRUE]
       ELSE /\ tokresp' = [op |-> "check", token |-> k, ok |-> FALSE]
            /\ UNCHANGED tcache
    /\ UNCHANGED <<tokdb, tnow, issued>>
    /\ UNCHANGED nonk

\* the process after start: no token stored, none cached
KInit ==
    /\ tokdb = {}
    /\ tcache = [k \in TokenStrings |-> NoToken]
    /\ tnow = 0
    /\ issued = <<>>
    /\ tokresp = NoTokResp

KNext ==
    \/ TokTick
    \/ \E u \in Users, right \in BOOLEAN : Authenticate(u, right)
    \/ \E k \in TokenStrings : TokenCheck(k)

InitToken == QInit /\ TIdle /\ fetched = NoFetch /\ VIdle /\ DIdle /\ PIdle
             /\ GIdle /\ FIdle /\ OIdle /\ SIdle /\ KInit /\ CIdle /\ IIdle /\ MIdle /\ WIdle
SpecToken == InitToken /\ [][KNext]_vars

\* token k was issued and its user authenticated again afterwards
Superseded(k) ==
    /\ k <= Len(issued)
    /\ \E n \in k + 1 .. Len(issued) : issued[n] = issued[k]

\* C35: after a user authenticated again, Token.check rejects every token
\* issued to that user earlier, whether or not the old token had been
\* checked before.
C35_OldTokensRejected ==
    (tokresp.op = "check" /\ Superseded(tokresp.token)) => ~tokresp.ok

(* ------------------------------------------------------------------ *)
(* Constructing a Task whose pipeline holds CallTask stages            *)
(* ------------------------------------------------------------------ *)
\* longest pipeline of a stored job, and the number of nested
\* constructions at which the interpreter raises RecursionError
MaxPipe == 2
MaxDepth == 4

\* the ids of the stored jobs, and an id no stored job has
StoredIds == 1 .. 2
MissingId == 3

\* a stage of a stored pipeline: its name and, for a CallTask, the task id
PStage(name, id) == [name |-> name, task |-> id]

\* a stage without sub-pipeline, a stage of a name no class is registered
\* for, and the CallTask stages (params empty)
StoredStages ==
    {PStage("Plain", 0), PStage("Unknown", 0)}
        \cup {PStage("CallTask", k) : k \in StoredIds \cup {MissingId}}

StoredPipelines == UNION {[1 .. n -> StoredStages] : n \in 0 .. MaxPipe}

\* one construction under way: the job and the stage being instantiated
Frame(j, pos) == [job |-> j, pos |-> pos]

\* the construction that is innermost, and the stage it instantiates
Top == cstack[Len(cstack)]
Current == cstore[Top.job][Top.pos]

\* the constructions under way but the innermost, the one that called it
\* moved on to its next stage
Return ==
    LET rest == SubSeq(cstack, 1, Len(cstack) - 1)
    IN  IF rest = <<>> THEN rest
        ELSE [rest EXCEPT ![Len(rest)] = Frame(@.job, @.pos + 1)]

\* Task(...) instantiates a stage that is no CallTask: a name without a
\* registered class is a specification error
StageInit ==
    /\ cphase = "building"
    /\ Top.pos <= Len(cstore[Top.job])
    /\ Current.name # "CallTask"
    /\ IF Current.name = "Unknown"
       THEN /\ cphase' = "failed"
            /\ UNCHANGED cstack
       ELSE /\ cstack' = [cstack EXCEPT ![Len(cstack)] = Frame(@.job, @.pos + 1)]
            /\ UNCHANGED cphase
    /\ UNCHANGED <<cstore, cloads>>
    /\ UNCHANGED nonc

\* CallTask.__init__(task) up to Task.from_dbo(t): the job is loaded, a
\* missing job fails the assertion, and the construction of the Task of
\* the loaded job begins; the interpreter ends the nesting at its limit
CallTaskLoad ==
    /\ cphase = "building"
    /\ Top.pos <= Len(cstore[Top.job])
    /\ Current.name = "CallTask"
    /\ cloads' = cloads + 1
    /\ IF Current.task \notin DOMAIN cstore
       THEN /\ cphase' = "failed"
            /\ UNCHANGED cstack
       ELSE IF Len(cstack) >= MaxDepth
       THEN /\ cphase' = "overflow"
            /\ UNCHANGED cstack
       ELSE /\ cstack' = Append(cstack, Frame(Current.task, 1))
            /\ UNCHANGED cphase
    /\ UNCHANGED cstore
    /\ UNCHANGED nonc

\* every stage of the innermost pipeline is instantiated: Task.from_dbo
\* returns to the CallTask that called it, or the outermost Task is built
TaskBuilt ==
    /\ cphase = "building"
    /\ Top.pos > Len(cstore[Top.job])
    /\ cstack' = Return
    /\ cphase' = IF Len(cstack) = 1 THEN "built" ELSE "building"
    /\ UNCHANGED <<cstore, cloads>>
    /\ UNCHANGED nonc

\* Task(...) of a stored job begins, over any stored pipelines
InvokeInit ==
    /\ cstore \in [StoredIds -> StoredPipelines]
    /\ \E j \in StoredIds : cstack = <<Frame(j, 1)>>
    /\ cloads = 0
    /\ cphase = "building"

CNextInvoke ==
    \/ StageInit
    \/ CallTaskLoad
    \/ TaskBuilt

InitInvoke == QInit /\ TIdle /\ fetched = NoFetch /\ VIdle /\ DIdle /\ PIdle
              /\ GIdle /\ FIdle /\ OIdle /\ SIdle /\ KIdle /\ InvokeInit /\ IIdle /\ MIdle /\ WIdle
SpecInvoke == InitInvoke /\ [][CNextInvoke]_vars

\* C36: constructing a pipeline that holds Invoke-task stages ends for
\* every set of stored jobs, a job invoking itself or two jobs invoking
\* each other included: no construction re-enters a job whose construction
\* is under way, and every construction completes or fails with a
\* specification error.
C36_ConstructionEnds ==
    /\ \A i, j \in 1 .. Len(cstack) : i < j => cstack[i].job # cstack[j].job
    /\ cphase # "overflow"

(* ------------------------------------------------------------------ *)
(* TwitterDataSource.import_timeline                                   *)
(* ------------------------------------------------------------------ *)
\* pages requested at most (50 in the code), statuses of a page, last
\* time in milliseconds; the bits below the time in an id (22 in the
\* code) and the epoch of the ids (1288834974657 in the code)
MaxPages == 3
MaxStatuses == 2
MaxTime == 3
IdBits == 1
Epoch == 1

Times == 0 .. MaxTime

\* twitter_id_from_timestamp, the stamp in milliseconds
twitter_id_from_timestamp(stamp) == (stamp - Epoch) * (2 ^ IdBits)

\* timestamp_from_twitter_id, in milliseconds
timestamp_from_twitter_id(tweet_id) == (tweet_id \div (2 ^ IdBits)) + Epoch

\* the ids the remote API may answer with: older than, at and after the
\* first cursor
TweetIds == 0 .. twitter_id_from_timestamp(MaxTime) + 2

\* the pages the remote API may answer with: any statuses in any order
Timelines == UNION {[1 .. n -> TweetIds] : n \in 0 .. MaxStatuses}

\* a status at the cursor counted as older than it
OlderOrSame(cursor, id) == cursor >= id

\* if max_id > status.id
Older(cursor, id) == cursor > id

RECURSIVE Statuses(_, _)
\* the loop over the statuses of a page: it ends at the first status below
\* min_id; a status older than the cursor moves before and the cursor;
\* taken counts the statuses given to parse_tweet
Statuses(timeline, s) ==
    IF timeline = <<>> THEN s
    ELSE LET id == Head(timeline)
         IN  IF min_id > id THEN s
             ELSE Statuses(Tail(timeline),
                     IF Older(s.max_id, id)
                     THEN [max_id |-> Min(s.max_id, id),
                           before |-> Min(s.before, timestamp_from_twitter_id(id)),
                           has_data |-> TRUE,
                           taken |-> s.taken + 1]
                     ELSE [s EXCEPT !.taken = @ + 1])

\* import_timeline up to its loop: the time bounds are put in order, the
\* cursor is set just after time_before and min_id at time_after
ImportBegin ==
    /\ iphase = "new"
    /\ time_before' = Max(time_before, time_after)
    /\ time_after' = Min(time_before, time_after)
    /\ max_id' = twitter_id_from_timestamp(time_before') + 1
    /\ before' = time_before'
    /\ min_id' = Max(0, twitter_id_from_timestamp(time_after'))
    /\ pages' = 0
    /\ iphase' = "paging"
    /\ UNCHANGED <<iuser, ipage>>
    /\ UNCHANGED noni

\* one pass of the loop whose request is answered with timeline, parse_tweet
\* returning a record for the statuses (parsed) or for none: the statuses
\* are taken, the loop is left when the page held nothing older than the
\* cursor (or, without a user, yielded nothing), and the condition of the
\* while is tested again
Page(timeline, parsed) ==
    /\ iphase = "paging"
    /\ LET s == Statuses(timeline, [max_id |-> max_id, before |-> before,
                                    has_data |-> FALSE, taken |-> 0])
           yielded == parsed /\ s.taken > 0
           left == (iuser = "" /\ ~yielded) \/ ~s.has_data
       IN  /\ pages' = pages + 1
           /\ max_id' = s.max_id
           /\ before' = s.before
           /\ iphase' = IF left THEN "done"
                        ELSE IF before' >= time_after /\ pages' < MaxPages
                        THEN "paging"
                        ELSE "done"
    /\ ipage' = [cursor |-> max_id,
                 older |-> \E i \in 1 .. Len(timeline) : timeline[i] < max_id,
                 only_old |-> /\ timeline # <<>>
                              /\ \A i \in 1 .. Len(timeline) : timeline[i] < min_id,
                 raised |-> FALSE]
    /\ UNCHANGED <<iuser, time_after, time_before, min_id>>
    /\ UNCHANGED noni

\* one pass of the loop whose request raises tweepy.TweepyException: the
\* exception is logged and the call ends
PageRaises ==
    /\ iphase = "paging"
    /\ pages' = pages + 1
    /\ ipage' = [cursor |-> max_id, older |-> FALSE, only_old |-> FALSE,
                 raised |-> TRUE]
    /\ iphase' = "error"
    /\ UNCHANGED <<iuser, time_after, time_before, max_id, before, min_id>>
    /\ UNCHANGED noni

\* import_timeline(user) of a data source with any time bounds
TimelineInit ==
    /\ iuser \in {"@", "#", ""}
    /\ time_after \in Times
    /\ time_before \in Times
    /\ max_id = 0
    /\ before = 0
    /\ min_id = 0
    /\ pages = 0
    /\ ipage = NoPage
    /\ iphase = "new"

INext ==
    \/ ImportBegin
    \/ \E timeline \in Timelines, parsed \in BOOLEAN : Page(timeline, parsed)
    \/ PageRaises

InitTimeline == QInit /\ TIdle /\ fetched = NoFetch /\ VIdle /\ DIdle /\ PIdle
                /\ GIdle /\ FIdle /\ OIdle /\ SIdle /\ KIdle /\ CIdle /\ TimelineInit /\ MIdle /\ WIdle
\* the call runs on its own: a pass of the loop that can be made is made
SpecTimeline == InitTimeline /\ [][INext]_vars /\ WF_vars(INext)

\* a page was requested in this step
Requested == pages' = pages + 1

\* C37: import_timeline ends whatever the remote API answers; it requests
\* at most MaxPages pages, the cursor max_id strictly decreases over every
\* page that is followed by another request, and paging stops with the
\* page that holds no status older than the cursor or only statuses older
\* than the lower time bound.
C37_TimelineEnds ==
    /\ [](pages <= MaxPages)
    /\ [][(Requested /\ iphase' = "paging") => max_id' < max_id]_vars
    /\ [][(Requested /\ (~ipage'.older \/ ipage'.only_old)) => iphase' # "paging"]_vars
    /\ <>(iphase \in {"done", "error"})

\* C37 witness: the first page moved the cursor, the second held nothing
\* older than it and ended the call
C37_Witness ==
    /\ iphase = "done"
    /\ pages = 2
    /\ ~ipage.older
    /\ ~ipage.raised
    /\ ipage.cursor < twitter_id_from_timestamp(time_before) + 1

(* ------------------------------------------------------------------ *)
(* TwitterDataSource.parse_tweet                                       *)
(* ------------------------------------------------------------------ *)
\* media entities of a tweet
MaxMedia == 2

\* a media entity: its url, whether it has video_info, whether the url of
\* its last variant ends with .m3u8, and whether MediaItem.get found the
\* item stored (item.id); an entity without url has the url ""
Media(url, video, m3u8, stored) ==
    [url |-> url, video |-> video, m3u8 |-> m3u8, stored |-> stored]

MediaEntities ==
    {Media("a.jpg", FALSE, FALSE, FALSE), Media("b.jpg", FALSE, FALSE, TRUE),
     Media("c.mp4", TRUE, FALSE, FALSE), Media("d.mp4", TRUE, FALSE, TRUE),
     Media("e.m3u8", TRUE, TRUE, FALSE), Media("", FALSE, FALSE, FALSE)}

MediaLists == UNION {[1 .. n -> MediaEntities] : n \in 0 .. MaxMedia}

\* the loop over the media entities passes over this one: a video when
\* videos are not allowed, an m3u8 variant, an entity without url, a
\* stored item under self.skip_existent
Passed(media, t) ==
    \/ media.video /\ ~t.allow_video
    \/ media.video /\ media.m3u8
    \/ media.url = ""
    \/ media.stored /\ t.skip_existent

RECURSIVE Appended(_, _)
\* the loop over the media entities: the items appended to para.images
Appended(entities, t) ==
    IF entities = <<>> THEN <<>>
    ELSE IF Passed(Head(entities), t) THEN Appended(Tail(entities), t)
    ELSE <<Head(entities).url>> \o Appended(Tail(entities), t)

\* the items the loop saves: those appended that were not stored
NewItems(entities, t) ==
    {entities[i].url : i \in {n \in 1 .. Len(entities) :
                                 ~Passed(entities[n], t) /\ ~entities[n].stored}}

\* the update of the paragraph fields: para.images = []
Updated(images) == <<>>

\* parse_tweet(tweet, skip_existent) for a tweepy.Tweet: None for a tweet
\* imported before, without media under media_only, or stored under
\* skip_existent; else the media items are collected, the fields of the
\* record are updated, the record is saved and returned
ParseTweet ==
    /\ mphase = "new"
    /\ LET t == mtweet
           skip == IF t.arg = "None" THEN t.skip_existent ELSE t.arg = "True"
           none == \/ t.imported
                   \/ t.media = <<>> /\ t.media_only
           early == none \/ (skip /\ t.existent)
           images == Updated(Appended(t.media, t))
       IN  /\ mret' = IF early THEN NoPara ELSE [some |-> TRUE, images |-> images]
           /\ msaved' = IF early THEN NoSaved
                        ELSE [para |-> TRUE, images |-> images,
                              items |-> NewItems(t.media, t)]
    /\ mphase' = "parsed"
    /\ UNCHANGED mtweet
    /\ UNCHANGED nonm

\* any tweet given to a data source of any settings
TweetInit ==
    /\ \E media \in MediaLists, imported, existent, allow_video, media_only,
          skip_existent \in BOOLEAN, arg \in {"None", "True", "False"} :
          mtweet = [media |-> media, imported |-> imported, existent |-> existent,
                    allow_video |-> allow_video, media_only |-> media_only,
                    skip_existent |-> skip_existent, arg |-> arg]
    /\ mret = NoPara
    /\ msaved = NoSaved
    /\ mphase = "new"

MNext == ParseTweet

InitTweet == QInit /\ TIdle /\ fetched = NoFetch /\ VIdle /\ DIdle /\ PIdle
             /\ GIdle /\ FIdle /\ OIdle /\ SIdle /\ KIdle /\ CIdle /\ IIdle /\ TweetInit /\ WIdle
SpecTweet == InitTweet /\ [][MNext]_vars

RECURSIVE NotSkipped(_, _)
\* the media items of a tweet that were not skipped, in their order
NotSkipped(entities, t) ==
    IF entities = <<>> THEN <<>>
    ELSE LET m == Head(entities)
             skipped == \/ m.video /\ ~t.allow_video
                        \/ m.video /\ m.m3u8
                        \/ m.stored /\ t.skip_existent
                        \/ m.url = ""
         IN  IF skipped THEN NotSkipped(Tail(entities), t)
             ELSE <<m.url>> \o NotSkipped(Tail(entities), t)

\* C38: the record parse_tweet returns for a tweet holds in its images
\* list every media item of the tweet that was not skipped (a video when
\* videos are not allowed, an m3u8 variant, a stored item under
\* skip_existent), and that list is what is saved with the record.
C38_ImagesKept ==
    (mphase = "parsed" /\ mret.some) =>
        /\ mret.images = NotSkipped(mtweet.media, mtweet)
        /\ msaved.images = mret.images

(* ------------------------------------------------------------------ *)
(* try_download                                                        *)
(* ------------------------------------------------------------------ *)
\* largest value of the argument attempts
MaxAttempts == 3

\* the status codes of a response
StatusCodes == {200, 404}

\* code after `code = -1`, and after a response of status s
Bound(s) == [bound |-> TRUE, value |-> s]

\* everything an attempt can meet
AllOutcomes ==
    {[kind |-> k, status |-> 0] : k \in {"read", "raise", "proxy"}}
        \cup {[kind |-> "response", status |-> s] : s \in StatusCodes}

\* what one attempt meets: for a path that exists, the file is read or
\* reading raises; else the request is answered with a status, ends in a
\* ProxyError, or raises anything else (a path without scheme always does)
Outcomes(exists) ==
    IF wurl = "local" /\ exists
    THEN {[kind |-> "read", status |-> 0], [kind |-> "raise", status |-> 0]}
    ELSE IF wurl = "local"
    THEN {[kind |-> "raise", status |-> 0]}
    ELSE {[kind |-> "response", status |-> s] : s \in StatusCodes}
            \cup {[kind |-> "proxy", status |-> 0], [kind |-> "raise", status |-> 0]}

\* `if code != -1` where code was never assigned raises UnboundLocalError,
\* which the except clause of the attempt catches
TestRaises(code) == ~code.bound

\* one pass of the loop, the path existing or not and the attempt meeting o
Attempt(exists, o) ==
    /\ wphase = "loop"
    /\ witry < wattempts
    /\ o \in Outcomes(exists)
    /\ witry' = witry + 1
    /\ LET local == wurl = "local" /\ exists
           code1 == IF local THEN wcode ELSE Bound(-1)
           code2 == IF o.kind = "response" THEN Bound(o.status) ELSE code1
           obtained == o.kind \in {"read", "response"}
           raised == o.kind = "raise" \/ TestRaises(code2)
       IN  /\ wcode' = code2
           /\ wbuf' = IF obtained THEN witry + 1
                      ELSE IF o.kind = "proxy" THEN 0
                      ELSE wbuf
           /\ wgot' = IF obtained THEN wgot + 1 ELSE wgot
           /\ wsleeps' = IF raised THEN wsleeps + 1 ELSE wsleeps
           /\ wphase' = IF ~raised /\ code2.value # -1 THEN "break" ELSE "loop"
    /\ UNCHANGED <<wurl, wattempts, wret>>
    /\ UNCHANGED nonw

\* return buf, after the break or the last pass
DownloadReturn ==
    /\ \/ wphase = "break"
       \/ wphase = "loop" /\ witry >= wattempts
    /\ wret' = wbuf
    /\ wphase' = "returned"
    /\ UNCHANGED <<wurl, wattempts, witry, wbuf, wcode, wgot, wsleeps>>
    /\ UNCHANGED nonw

\* try_download(url, attempts=n) of a remote url or a local path
WInit ==
    /\ wurl \in {"remote", "local"}
    /\ wattempts \in 0 .. MaxAttempts
    /\ witry = 0
    /\ wbuf = 0
    /\ wcode = Unbound
    /\ wgot = 0
    /\ wsleeps = 0
    /\ wret = 0
    /\ wphase = "loop"

WNext ==
    \/ \E exists \in BOOLEAN, o \in AllOutcomes : Attempt(exists, o)
    \/ DownloadReturn

InitDownload == QInit /\ TIdle /\ fetched = NoFetch /\ VIdle /\ DIdle /\ PIdle
                /\ GIdle /\ FIdle /\ OIdle /\ SIdle /\ KIdle /\ CIdle /\ IIdle
                /\ MIdle /\ WInit
SpecDownload == InitDownload /\ [][WNext]_vars

\* C39: try_download(url, attempts=n) makes at most n attempts and stops
\* at the first attempt that obtains content, for a remote url and an
\* existing local path alike; it returns that content, or None when every
\* attempt failed.
C39_StopsAtFirstContent ==
    /\ witry <= wattempts
    /\ wgot <= 1
    /\ wphase = "returned" => (wret = 0 <=> wgot = 0)

====
